---- MODULE Spec2Model ----
(***************************************************************************)
(* A model of gdb/windows-tdep.c: the core-dump section scanner            *)
(* (windows_core_xfer_shared_libraries, windows_core_xfer_siginfo), the    *)
(* TIB -> PEB -> process-parameters walker (read_unicode_string,           *)
(* windows_info_proc) and the PE import-directory walker                   *)
(* (is_linked_with_cygwin_dll).                                            *)
(*                                                                         *)
(* Text is modelled as sequences of bytes (character codes), memory and    *)
(* section contents as sequences of bytes 0..255.  Sequences are 1-based;  *)
(* the C code's 0-based offset o is element o + 1.                         *)
(***************************************************************************)
EXTENDS Integers, Sequences, FiniteSets, TLC

VARIABLES
  reader,       \* a reader of the module list: how far it is and what it has
  sizeof_size_t,  \* sizeof (size_t) of the host gdb is built for: 4 or 8
  ptr_bit,      \* gdbarch_ptr_bit (gdbarch): 32 or 64
  byte_order,   \* gdbarch_byte_order (gdbarch)
  core_bfd,     \* the sections of the core file, in discovery order
  hostfs,       \* the DLLs gdb_bfd_open finds on the host: name -> .text offset
  last_xfer_libraries,  \* the cached module list: <<>> is NULL, <<text>> a text
  target_has_execution, \* target_has_execution (): a live inferior is attached
  tib,          \* what target_get_tib_address answers: [ok, tlb]
  target_memory,        \* the inferior's readable memory: address -> byte
  exec_bfd,     \* the executable handed to is_linked_with_cygwin_dll
  current_program_space,  \* the program space gdb works in
  program_spaces,       \* of each program space: exec_bfd (), symfile_object_file
  windows_info, \* of each program space: the cached entry_point
  breakpoints,  \* all_breakpoints (): each with its type and locations
  entry_point_breakpoint_created,  \* the static flag of that name
  hook_runs,    \* how often windows_solib_create_inferior_hook has run
  last          \* the most recent call of a handler: its arguments and results

\* The state of the breakpoint machinery and the program spaces.
debugger ==
  <<current_program_space, program_spaces, windows_info, breakpoints,
    entry_point_breakpoint_created, hook_runs>>

vars == <<reader, sizeof_size_t, ptr_bit, byte_order, core_bfd, hostfs, last_xfer_libraries,
          target_has_execution, tib, target_memory, exec_bfd, debugger, last>>

\* A null pointer: there is no object behind it.
nullptr == <<>>

(***************************************************************************)
(* Bytes and C strings.                                                    *)
(***************************************************************************)

\* The element at 0-based offset off of buf; an access outside the buffer
\* is undefined in C and yields the marker 256, which is no byte.
ByteAt(buf, off) ==
  IF off >= 0 /\ off < Len(buf) THEN buf[off + 1] ELSE 256

\* The count bytes of buf from 0-based offset off.
Bytes(buf, off, count) ==
  [i \in 1..count |-> ByteAt(buf, off + i - 1)]

\* memcpy (dst, src + off, n): the first n bytes of dst are overwritten.
memcpy(dst, src, off, n) ==
  [i \in 1..Len(dst) |-> IF i <= n THEN ByteAt(src, off + i - 1) ELSE dst[i]]

\* A caller's buffer of len bytes that nothing has been copied to yet.
FreshBuf(len) ==
  [i \in 1..len |-> -1]

(***************************************************************************)
(* Fixed-width unsigned integers (CORE_ADDR, bfd_vma, ULONGEST, uint32_t)  *)
(* are words: little-endian sequences of bytes, least significant first.   *)
(* Arithmetic on words wraps at the word's width.                          *)
(***************************************************************************)

\* The word of len bytes whose value is the small number n (n < 2^24).
WordOfNat(n, len) ==
  [i \in 1..len |->
     IF i = 1 THEN n % 256
     ELSE IF i = 2 THEN (n \div 256) % 256
     ELSE IF i = 3 THEN (n \div 65536) % 256
     ELSE 0]

\* The word extended with zero bytes, or cut, to len bytes.
Resize(w, len) ==
  [i \in 1..len |-> IF i <= Len(w) THEN w[i] ELSE 0]

\* Whether the value of word w is below 2^24.
WordIsSmall(w) ==
  \A i \in 4..Len(w) : w[i] = 0

\* The value of a word that is small.
NatOfWord(w) ==
  LET v == Resize(w, 3)
  IN v[1] + 256 * v[2] + 65536 * v[3]

RECURSIVE AddCarry(_, _, _)
AddCarry(a, b, carry) ==
  IF a = <<>> THEN <<>>
  ELSE LET s == Head(a) + Head(b) + carry
       IN <<s % 256>> \o AddCarry(Tail(a), Tail(b), s \div 256)

\* a + b and a - b of two words of the same width, modulo 2^width.
WordAdd(a, b) ==
  AddCarry(a, b, 0)

WordSub(a, b) ==
  AddCarry(a, [i \in 1..Len(b) |-> 255 - b[i]], 1)

\* a < b for two words of the same width.
WordLess(a, b) ==
  \E i \in 1..Len(a) :
    /\ a[i] < b[i]
    /\ \A j \in (i + 1)..Len(a) : a[j] = b[j]

\* extract_unsigned_integer (buf + off, len, byte_order) as a CORE_ADDR /
\* ULONGEST: the len bytes, least significant first, zero-extended to 8.
extract_unsigned_integer(buf, off, len, order) ==
  LET raw == Bytes(buf, off, len)
  IN Resize(IF order = "little" THEN raw
            ELSE [i \in 1..len |-> raw[len + 1 - i]], 8)

\* The bytes that store word w in len bytes of target memory.
StoreInteger(w, len, order) ==
  IF order = "little" THEN Resize(w, len)
  ELSE [i \in 1..len |-> Resize(w, len)[len + 1 - i]]

(***************************************************************************)
(* Text: C strings, hexadecimal numbers.                                   *)
(***************************************************************************)

\* startswith (s, prefix)
startswith(s, prefix) ==
  /\ Len(s) >= Len(prefix)
  /\ SubSeq(s, 1, Len(prefix)) = prefix

\* s without its first n elements.
Drop(s, n) ==
  SubSeq(s, n + 1, Len(s))

\* The number of elements of s before the first one in set stop (all of
\* them when there is none).
SpanUntil(s, stop) ==
  LET hits == {i \in 1..Len(s) : s[i] \in stop}
  IN IF hits = {} THEN Len(s)
     ELSE (CHOOSE i \in hits : \A j \in hits : i <= j) - 1

\* The C string that starts at 0-based offset off of buf: the bytes before
\* the first NUL.  The buffers this is used on end in a NUL.
CStringAt(buf, off) ==
  LET rest == Drop(buf, off)
  IN SubSeq(rest, 1, SpanUntil(rest, {0}))

\* The value of a hexadecimal digit character, -1 for any other character.
HexDigitValue(c) ==
  IF c >= 48 /\ c <= 57 THEN c - 48
  ELSE IF c >= 97 /\ c <= 102 THEN c - 87
  ELSE IF c >= 65 /\ c <= 70 THEN c - 55
  ELSE -1

\* The character of a hexadecimal digit value, in lower case.
HexDigitChar(v) ==
  IF v < 10 THEN 48 + v ELSE 87 + v

NotWhiteSpace == (0..255) \ {32, 9, 10, 11, 12, 13}
NotHexDigits == {c \in 0..255 : HexDigitValue(c) = -1}

\* The 16 nibbles of an 8-byte word, most significant first.
Nibbles(w) ==
  [k \in 1..16 |->
     LET byte == w[8 - ((k - 1) \div 2)]
     IN IF k % 2 = 1 THEN byte \div 16 ELSE byte % 16]

\* The 8-byte word of at most 16 digit values, most significant first.
WordOfDigits(digits) ==
  LET n   == Len(digits)
      nib == [k \in 1..16 |-> IF k > 16 - n THEN digits[k - (16 - n)] ELSE 0]
  IN [i \in 1..8 |-> nib[16 - 2 * (i - 1)] + 16 * nib[15 - 2 * (i - 1)]]

\* sscanf (text, "%llx", &value): white space, an optional sign, an
\* optional 0x, then hexadecimal digits up to the first other character.
\* Without a digit nothing is assigned.  A value that does not fit 64 bits
\* is ULLONG_MAX.
sscanf_llx(text) ==
  LET s1     == Drop(text, SpanUntil(text, NotWhiteSpace))
      signed == s1 # <<>> /\ s1[1] \in {43, 45}
      s2     == IF signed THEN Tail(s1) ELSE s1
      has0x  == /\ Len(s2) >= 3
                /\ s2[1] = 48 /\ s2[2] \in {120, 88}
                /\ HexDigitValue(s2[3]) # -1
      s3     == IF has0x THEN Drop(s2, 2) ELSE s2
      ndig   == SpanUntil(s3, NotHexDigits)
      digits == [i \in 1..ndig |-> HexDigitValue(s3[i])]
      sig    == Drop(digits, SpanUntil(digits, 1..15))
      value  == IF Len(sig) > 16 THEN [i \in 1..8 |-> 255] ELSE WordOfDigits(sig)
  IN IF ndig = 0 THEN [assigned |-> FALSE, value |-> <<>>]
     ELSE [assigned |-> TRUE,
           value |-> IF signed /\ s1[1] = 45 /\ Len(sig) <= 16
                     THEN WordSub(WordOfNat(0, 8), value) ELSE value]

\* hex_string (value): "0x" and the digits without leading zeros.
hex_string(w) ==
  LET nib  == Nibbles(w)
      lead == SpanUntil(nib, 1..15)
      from == IF lead = 16 THEN 16 ELSE lead + 1
  IN <<48, 120>> \o [k \in 1..(17 - from) |-> HexDigitChar(nib[from + k - 1])]

\* paddress (gdbarch, addr): the address cut to the target's address width.
paddress(bit, addr) ==
  hex_string(Resize(Resize(addr, bit \div 8), 8))

(***************************************************************************)
(* The binary container (BFD): a sequence of sections, each with a name,   *)
(* its contents, and whether its contents can be read from the file.       *)
(***************************************************************************)

Section(name, contents, readable) ==
  [name |-> name, contents |-> contents, readable |-> readable]

\* bfd_get_section_by_name: the index of the first section called name,
\* 0 (NULL) when there is none.
bfd_get_section_by_name(abfd, name) ==
  IF \E i \in 1..Len(abfd) : abfd[i].name = name
  THEN CHOOSE i \in 1..Len(abfd) :
         /\ abfd[i].name = name
         /\ \A j \in 1..(i - 1) : abfd[j].name # name
  ELSE 0

bfd_section_size(sect) ==
  Len(sect.contents)

\* bfd_get_section_contents (abfd, sect, location, offset, count): fails
\* when the file cannot be read or the range leaves the section; copies
\* nothing then.
bfd_get_section_contents(sect, offset, count) ==
  IF sect.readable /\ offset + count <= bfd_section_size(sect)
  THEN [ok |-> TRUE, data |-> Bytes(sect.contents, offset, count)]
  ELSE [ok |-> FALSE, data |-> <<>>]

(***************************************************************************)
(* windows_core_xfer_siginfo                                               *)
(***************************************************************************)

Name_coreexception ==   \* ".coreexception"
  <<46, 99, 111, 114, 101, 101, 120, 99, 101, 112, 116, 105, 111, 110>>

EXC_SIZE_32 == 80
EXC_SIZE_64 == 152

\* rec[w] of the uint32_t rec[38] laid over the record's bytes.
RecWord(rec, w) ==
  Bytes(rec, 4 * w, 4)

\* rec[w] = val
SetRecWord(rec, w, val) ==
  [i \in 1..Len(rec) |->
     IF i > 4 * w /\ i <= 4 * w + 4 THEN val[i - 4 * w] ELSE rec[i]]

\* for (r = from; r < 19; r++) rec[r + 1] = rec[r * 2];
RECURSIVE CompactFrom(_, _)
CompactFrom(rec, r) ==
  IF r < 19
  THEN CompactFrom(SetRecWord(rec, r + 1, RecWord(rec, r * 2)), r + 1)
  ELSE rec

\* The same assignments run from r = 18 down to r = 2: a slot is
\* overwritten before it is read.
RECURSIVE CompactDownFrom(_, _)
CompactDownFrom(rec, r) ==
  IF r >= 2
  THEN CompactDownFrom(SetRecWord(rec, r + 1, RecWord(rec, r * 2)), r - 1)
  ELSE rec

CompactRecordBackwards(rec) ==
  CompactDownFrom(rec, 18)

\* The copy loop of the 32-bit branch.
CompactRecord(rec) ==
  CompactFrom(rec, 2)

SiginfoSizeAlwaysAccepted(sect) ==
  FALSE

\* bfd_section_size (section) != EXC_SIZE_64
SiginfoSizeRejected(sect) ==
  bfd_section_size(sect) # EXC_SIZE_64

SiginfoAlwaysConverts(bit) ==
  TRUE

\* gdbarch_ptr_bit (gdbarch) == 32
SiginfoConverts(bit) ==
  bit = 32

SiginfoRemainingStored(offset) ==
  EXC_SIZE_64 - offset

\* EXC_SIZE_32 - offset
SiginfoRemaining(offset) ==
  EXC_SIZE_32 - offset

\* The result of windows_core_xfer_siginfo: the LONGEST it returns and the
\* caller's buffer afterwards.
windows_core_xfer_siginfo(abfd, bit, readbuf, offset, len) ==
  LET section == bfd_get_section_by_name(abfd, Name_coreexception)
      failed  == [ret |-> -1, readbuf |-> readbuf]
  IN
  IF section = 0 THEN failed
  ELSE IF SiginfoConverts(bit) THEN
    IF offset > EXC_SIZE_32 THEN failed
    ELSE IF SiginfoSizeRejected(abfd[section]) THEN failed
    ELSE
      LET got == bfd_get_section_contents(abfd[section], 0, EXC_SIZE_64) IN
      IF ~got.ok THEN failed
      ELSE
        LET rec == CompactRecord(got.data)
            n   == IF len > SiginfoRemaining(offset)
                   THEN SiginfoRemaining(offset) ELSE len
        IN [ret |-> n, readbuf |-> memcpy(readbuf, rec, offset, n)]
  ELSE
    LET got == bfd_get_section_contents(abfd[section], offset, len) IN
    IF ~got.ok THEN failed
    ELSE [ret |-> len, readbuf |-> memcpy(readbuf, got.data, 0, len)]

\* Stored exception records: byte i (0-based) is (mul * i + add) mod 256.
ExcPattern(mul, add, size) ==
  [i \in 1..size |-> (mul * (i - 1) + add) % 256]

ExcPatterns == {<<1, 0>>, <<3, 7>>, <<0, 0>>}
ExcSectionSizes == {0, 80, 151, 152, 153, 160}
SiginfoOffsets == {0, 1, 12, 16, 79, 80, 81, 152}
SiginfoLens == {0, 1, 4, 8, 80, 152, 200}

SiginfoDumps ==
  {<<>>} \cup
  {<<Section(Name_coreexception, ExcPattern(p[1], p[2], size), readable)>> :
     p \in ExcPatterns, size \in ExcSectionSizes, readable \in BOOLEAN}

NoCall == [op |-> "none"]

\* Nobody reads the module list in chunks.
NoReader == [offset |-> 0, text |-> <<>>, done |-> TRUE]

\* No live inferior and no executable: the state the core-file handlers
\* run in.
CoreFileOnly ==
  /\ target_has_execution = FALSE
  /\ tib = [ok |-> FALSE]
  /\ target_memory = <<>>
  /\ exec_bfd = nullptr

\* One program space, no breakpoint, the hook has not run: the state the
\* handlers that use none of them run in.
NoBreakpoints ==
  /\ current_program_space = 1
  /\ program_spaces = <<>>
  /\ windows_info = <<>>
  /\ breakpoints = <<>>
  /\ entry_point_breakpoint_created = FALSE
  /\ hook_runs = 0

InitSiginfo ==
  /\ sizeof_size_t = 8
  /\ reader = NoReader
  /\ ptr_bit \in {32, 64}
  /\ byte_order = "little"
  /\ core_bfd \in SiginfoDumps
  /\ hostfs = <<>>
  /\ last_xfer_libraries = <<>>
  /\ CoreFileOnly
  /\ NoBreakpoints
  /\ last = NoCall

XferSiginfo ==
  \E offset \in SiginfoOffsets, len \in SiginfoLens :
    \E res \in {windows_core_xfer_siginfo(core_bfd, ptr_bit, FreshBuf(len),
                                          offset, len)} :
       /\ last' = [op |-> "xfer_siginfo", offset |-> offset, len |-> len,
                   ret |-> res.ret, readbuf |-> res.readbuf]
       /\ UNCHANGED <<reader, sizeof_size_t, ptr_bit, byte_order, core_bfd, hostfs, last_xfer_libraries,
                      target_has_execution, tib, target_memory, exec_bfd, debugger>>

NextSiginfo == XferSiginfo

SpecSiginfo == InitSiginfo /\ [][NextSiginfo]_vars

\* The stored `.coreexception' section of the dump, 0 when absent.
ExcSection == bfd_get_section_by_name(core_bfd, Name_coreexception)

\* Byte b (0-based) of the 80-byte logical 32-bit record gathered from an
\* unmodified copy of the stored record: words 0..2 as stored, word k of
\* 3..19 from the low half of the stored 8-byte slot k - 1.
LogicalByte(stored, b) ==
  LET k == b \div 4
      j == b % 4
  IN IF k <= 2 THEN stored[b + 1] ELSE stored[8 * (k - 1) + j + 1]

\* C3: on a 32-bit target every byte a successful read returns is the byte
\* of the logical view: words 0..2 are the stored words 0..2 and word k
\* (3..19) is the stored word 2(k-1), as gathered from an unmodified copy.
C3_DownConversion ==
  (last.op = "xfer_siginfo" /\ ptr_bit = 32 /\ last.ret >= 0) =>
    /\ ExcSection # 0
    /\ \A i \in 1..last.ret :
         last.readbuf[i] =
           LogicalByte(core_bfd[ExcSection].contents, last.offset + i - 1)

\* A whole-record read of a record whose bytes are pairwise distinct.
C3_Witness ==
  /\ last.op = "xfer_siginfo" /\ ptr_bit = 32
  /\ last.offset = 0 /\ last.ret = 80
  /\ \A i, j \in 1..80 : i # j => last.readbuf[i] # last.readbuf[j]

\* C4: on a 32-bit target the read fails with -1 and leaves the caller's
\* buffer untouched when the section is absent, the offset exceeds 80 or
\* the stored size is not 152.
C4_Siginfo32Fails ==
  (/\ last.op = "xfer_siginfo" /\ ptr_bit = 32
   /\ \/ ExcSection = 0
      \/ last.offset > 80
      \/ Len(core_bfd[ExcSection].contents) # 152) =>
    /\ last.ret = -1
    /\ last.readbuf = FreshBuf(last.len)

\* A readable record longer than 152 bytes, read at a valid offset.
C4_Witness ==
  /\ last.op = "xfer_siginfo" /\ ptr_bit = 32
  /\ ExcSection # 0
  /\ core_bfd[ExcSection].readable
  /\ Len(core_bfd[ExcSection].contents) > 152
  /\ last.offset <= 80 /\ last.len > 0
  /\ last.ret = -1

\* C5: on a 64-bit target the read returns -1 when the section is absent or
\* the container cannot deliver the range, and otherwise len bytes that are
\* the stored bytes [offset, offset + len), whatever the stored size.
C5_Siginfo64Verbatim ==
  (last.op = "xfer_siginfo" /\ ptr_bit = 64) =>
    IF \/ ExcSection = 0
       \/ ~core_bfd[ExcSection].readable
       \/ last.offset + last.len > Len(core_bfd[ExcSection].contents)
    THEN last.ret = -1 /\ last.readbuf = FreshBuf(last.len)
    ELSE /\ last.ret = last.len
         /\ last.readbuf =
              SubSeq(core_bfd[ExcSection].contents,
                     last.offset + 1, last.offset + last.len)

\* A successful read beyond offset 80 of a record that is not 152 bytes.
C5_Witness ==
  /\ last.op = "xfer_siginfo" /\ ptr_bit = 64
  /\ ExcSection # 0
  /\ Len(core_bfd[ExcSection].contents) = 160
  /\ last.offset = 152 /\ last.len = 8 /\ last.ret = 8

(***************************************************************************)
(* windows_core_xfer_shared_libraries and core_process_module_section      *)
(***************************************************************************)

Name_module ==       \* ".module"
  <<46, 109, 111, 100, 117, 108, 101>>
Name_coremodule ==   \* ".coremodule/"
  <<46, 99, 111, 114, 101, 109, 111, 100, 117, 108, 101, 47>>
LibraryListOpen ==   \* "<library-list>\n"
  <<60, 108, 105, 98, 114, 97, 114, 121, 45, 108, 105, 115, 116, 62, 10>>
LibraryListClose ==  \* "</library-list>\n"
  <<60, 47, 108, 105, 98, 114, 97, 114, 121, 45, 108, 105, 115, 116, 62, 10>>
LibraryOpen ==       \* "<library name=\""
  <<60, 108, 105, 98, 114, 97, 114, 121, 32, 110, 97, 109, 101, 61, 34>>
SegmentOpen ==       \* "\"><segment address=\""
  <<34, 62, 60, 115, 101, 103, 109, 101, 110, 116, 32, 97, 100, 100, 114,
    101, 115, 115, 61, 34>>
LibraryClose ==      \* "\"/></library>"
  <<34, 47, 62, 60, 47, 108, 105, 98, 114, 97, 114, 121, 62>>

NOTE_INFO_MODULE == 3
NOTE_INFO_MODULE64 == 4
DEFAULT_COFF_PE_TEXT_SECTION_OFFSET == 4096

\* convert_between_encodings (target_wide_charset (gdbarch), host_charset (),
\* bytes, size, 2, &obstack, translit_char): every complete 2-byte unit of
\* the target's byte order becomes one host character, a unit outside ASCII
\* a '?'.  A trailing odd byte is dropped.
convert_between_encodings(wide, order) ==
  [k \in 1..(Len(wide) \div 2) |->
     LET unit == extract_unsigned_integer(wide, 2 * (k - 1), 2, order)
     IN IF unit[2] = 0 /\ unit[1] < 128 THEN unit[1] ELSE 63]

\* core_get_module_name (built without _WIN32, so without the symbol
\* server): the converted name as the C string at the obstack's base.
core_get_module_name(wide_name, order) ==
  CStringAt(convert_between_encodings(wide_name, order) \o <<0>>, 0)

\* xml_escape_text
XmlEscapeChar(c) ==
  IF c = 39 THEN <<38, 97, 112, 111, 115, 59>>        \* &apos;
  ELSE IF c = 34 THEN <<38, 113, 117, 111, 116, 59>>  \* &quot;
  ELSE IF c = 38 THEN <<38, 97, 109, 112, 59>>        \* &amp;
  ELSE IF c = 60 THEN <<38, 108, 116, 59>>            \* &lt;
  ELSE IF c = 62 THEN <<38, 103, 116, 59>>            \* &gt;
  ELSE <<c>>

RECURSIVE xml_escape_text(_)
xml_escape_text(text) ==
  IF text = <<>> THEN <<>>
  ELSE XmlEscapeChar(Head(text)) \o xml_escape_text(Tail(text))

\* pe_text_section_offset (gdb_bfd_open (so_name)): the offset of the DLL's
\* .text section, 0x1000 when the DLL cannot be opened.
pe_text_section_offset(fs, so_name) ==
  IF so_name \in DOMAIN fs THEN fs[so_name]
  ELSE WordOfNat(DEFAULT_COFF_PE_TEXT_SECTION_OFFSET, 8)

SegmentAddressWithoutTextOffset(load_addr, text_offset) ==
  load_addr

\* load_addr + text_offset, in CORE_ADDR arithmetic.
SegmentAddress(load_addr, text_offset) ==
  WordAdd(load_addr, text_offset)

\* windows_xfer_shared_library (so_name, load_addr, NULL, gdbarch, obstack):
\* the obstack with the module's <library> element appended.
windows_xfer_shared_library(so_name, load_addr, fs, bit, obstack) ==
  LET text_offset == pe_text_section_offset(fs, so_name)
  IN obstack \o LibraryOpen \o xml_escape_text(so_name) \o SegmentOpen
       \o paddress(bit, SegmentAddress(load_addr, text_offset))
       \o LibraryClose

\* module_name_offset + module_name_size > bfd_section_size (sect): the
\* two operands are size_t, so the sum is cut to the size_t_bytes bytes of
\* the host's size_t before it is compared.
NameOverruns(module_name_offset, module_name_size, size, size_t_bytes) ==
  WordLess(WordOfNat(size, 8),
           Resize(WordAdd(WordOfNat(module_name_offset, size_t_bytes),
                          Resize(module_name_size, size_t_bytes)), 8))

FirstModuleListed(module_count) ==
  TRUE

\* data->module_count != 0: the first module is the .exe itself.
NotFirstModule(module_count) ==
  module_count # 0

\* core_process_module_section (abfd, sect, data): data is the obstack and
\* module_count of struct cpms_data.  uninit is the value the local
\* base_addr holds when sscanf assigns nothing to it.
core_process_module_section(sect, data, order, bit, fs, uninit, size_t_bytes) ==
  LET is_module     == startswith(sect.name, Name_module)
      is_coremodule == startswith(sect.name, Name_coremodule)
      size          == bfd_section_size(sect)
      got           == bfd_get_section_contents(sect, 0, size)
      buf           == got.data \o <<0>>
      Emit(module_name, base_addr) ==
        [obstack |->
           IF NotFirstModule(data.module_count)
           THEN windows_xfer_shared_library(module_name, base_addr, fs, bit,
                                            data.obstack)
           ELSE data.obstack,
         module_count |-> data.module_count + 1]
      Legacy(module_name_offset, base_len, size_off) ==
        IF size < module_name_offset THEN data
        ELSE
          LET base_addr        == extract_unsigned_integer(buf, 4, base_len, order)
              module_name_size == extract_unsigned_integer(buf, size_off, 4, order)
          IN IF NameOverruns(module_name_offset, module_name_size, size,
                             size_t_bytes)
             THEN data
             ELSE Emit(CStringAt(buf, module_name_offset), base_addr)
  IN
  IF ~is_module /\ ~is_coremodule THEN data
  ELSE IF ~got.ok THEN data
  ELSE IF is_coremodule THEN
    LET scanned == sscanf_llx(Drop(sect.name, 12))
    IN Emit(core_get_module_name(got.data, order),
            IF scanned.assigned THEN scanned.value ELSE uninit)
  ELSE IF size < 4 THEN data
  ELSE
    LET data_type == extract_unsigned_integer(buf, 0, 4, order)
    IN IF data_type = WordOfNat(NOTE_INFO_MODULE, 8) THEN Legacy(12, 4, 8)
       ELSE IF data_type = WordOfNat(NOTE_INFO_MODULE64, 8) THEN Legacy(16, 8, 12)
       ELSE data

\* bfd_map_over_sections (core_bfd, core_process_module_section, &data),
\* from section i on.
RECURSIVE MapModuleSections(_, _, _, _, _, _, _, _)
MapModuleSections(abfd, i, data, order, bit, fs, uninit, size_t_bytes) ==
  IF i > Len(abfd) THEN data
  ELSE MapModuleSections(abfd, i + 1,
         core_process_module_section(abfd[i], data, order, bit, fs, uninit,
                                     size_t_bytes),
         order, bit, fs, uninit, size_t_bytes)

\* xstrdup / strlen of the finished obstack: the text before its first NUL.
xstrdup(text) ==
  CStringAt(text \o <<0>>, 0)

\* windows_core_xfer_shared_libraries, its first half: when no text is
\* cached the sections are scanned and the finished text is cached.  The
\* result is last_xfer_libraries afterwards.
BuildLibraryList(cache, abfd, order, bit, fs, uninit, size_t_bytes) ==
  IF cache = <<>>
  THEN <<xstrdup(MapModuleSections(abfd, 1,
                   [obstack |-> LibraryListOpen, module_count |-> 0],
                   order, bit, fs, uninit, size_t_bytes).obstack
                 \o LibraryListClose)>>
  ELSE cache

AvailableFromStart(len_avail, offset) ==
  len_avail

\* len_avail - offset
AvailableFrom(len_avail, offset) ==
  len_avail - offset

\* windows_core_xfer_shared_libraries, its second half: the count returned
\* and the caller's buffer after the transfer from the cached text buf.
TransferLibraryList(buf, readbuf, offset, len) ==
  LET len_avail == Len(buf)
      n         == IF len > AvailableFrom(len_avail, offset)
                   THEN AvailableFrom(len_avail, offset) ELSE len
  IN IF offset >= len_avail
     THEN [ret |-> 0, readbuf |-> readbuf]
     ELSE [ret |-> n, readbuf |-> memcpy(readbuf, buf, offset, n)]

\* The parse of the <library> elements of a module list up to its end tag:
\* each element's name and segment address as written in the text.
RECURSIVE ParseLibraries(_)
ParseLibraries(text) ==
  LET bad   == [ok |-> FALSE, libs |-> <<>>]
      t1    == Drop(text, Len(LibraryOpen))
      nlen  == SpanUntil(t1, {34})
      t2    == Drop(t1, nlen)
      t3    == Drop(t2, Len(SegmentOpen))
      alen  == SpanUntil(t3, {34})
      t4    == Drop(t3, alen)
  IN
  IF text = LibraryListClose THEN [ok |-> TRUE, libs |-> <<>>]
  ELSE IF ~startswith(text, LibraryOpen) THEN bad
  ELSE IF ~startswith(t2, SegmentOpen) THEN bad
  ELSE IF ~startswith(t4, LibraryClose) THEN bad
  ELSE LET rest == ParseLibraries(Drop(t4, Len(LibraryClose)))
       IN [ok   |-> rest.ok,
           libs |-> <<[name |-> SubSeq(t1, 1, nlen),
                       address |-> SubSeq(t3, 1, alen)]>> \o rest.libs]

ParseLibraryList(text) ==
  IF startswith(text, LibraryListOpen)
  THEN ParseLibraries(Drop(text, Len(LibraryListOpen)))
  ELSE [ok |-> FALSE, libs |-> <<>>]

\* UTF-16 text of the target's byte order.
Utf16(text, order) ==
  [i \in 1..(2 * Len(text)) |->
     StoreInteger(WordOfNat(text[(i + 1) \div 2], 2), 2, order)[2 - (i % 2)]]

\* A `.coremodule/<suffix>' section whose payload is the UTF-16 name.
CoreModuleSection(suffix, name, readable, order) ==
  Section(Name_coremodule \o suffix, Utf16(name, order), readable)

\* A legacy `.module' section: the tag, the base address in base_len bytes,
\* the declared name length, and the bytes that follow.
LegacySection(tag, base, base_len, declared, tail, order) ==
  Section(Name_module,
          StoreInteger(WordOfNat(tag, 4), 4, order)
            \o StoreInteger(base, base_len, order)
            \o StoreInteger(declared, 4, order)
            \o tail,
          TRUE)

Text_app_exe == <<97, 112, 112, 46, 101, 120, 101>>   \* "app.exe"
Text_lib_dll == <<108, 105, 98, 46, 100, 108, 108>>   \* "lib.dll"
Text_a_and_b == <<97, 38, 98>>                        \* "a&b"
Text_m_dll   == <<109, 46, 100, 108, 108>>            \* "m.dll"
Text_n_dll   == <<110, 46, 100, 108, 108>>            \* "n.dll"
Hex_1000     == <<49, 48, 48, 48>>                    \* "1000"
Hex_2000     == <<50, 48, 48, 48>>                    \* "2000"
Hex_fffff000 ==                                       \* "fffff000;s=1"
  <<102, 102, 102, 102, 102, 48, 48, 48, 59, 115, 61, 49>>
Hex_none     == <<120>>                               \* "x"

App1000(order) == CoreModuleSection(Hex_1000, Text_app_exe, TRUE, order)
Lib2000(order) == CoreModuleSection(Hex_2000, Text_lib_dll, TRUE, order)

\* The sections a dump is made of.
ModuleSections(order) ==
  { App1000(order),
    Lib2000(order),
    CoreModuleSection(Hex_fffff000, Text_a_and_b, TRUE, order),
    CoreModuleSection(Hex_2000, Text_lib_dll, FALSE, order),
    CoreModuleSection(Hex_none, Text_m_dll, TRUE, order),
    \* MODULE32 at 0x5000, name "m.dll" with its NUL, declared 6
    LegacySection(NOTE_INFO_MODULE, WordOfNat(20480, 8), 4, WordOfNat(6, 8),
                  Text_m_dll \o <<0>>, order),
    \* MODULE64 at 0x100006000, name "n.dll" up to the section's end
    LegacySection(NOTE_INFO_MODULE64, <<0, 96, 0, 0, 1, 0, 0, 0>>, 8,
                  WordOfNat(5, 8), Text_n_dll, order),
    \* MODULE32 whose declared name length leaves the section
    LegacySection(NOTE_INFO_MODULE, WordOfNat(28672, 8), 4, WordOfNat(200, 8),
                  Text_m_dll \o <<0>>, order),
    Section(Name_coreexception, <<1, 2, 3, 4>>, TRUE) }

MaxSections == 3

\* The dumps: up to MaxSections different sections, in any order.
ModuleDumps(order) ==
  {dump \in UNION {[1..n -> ModuleSections(order)] : n \in 0..MaxSections} :
     \A i, j \in 1..Len(dump) : i # j => dump[i] # dump[j]}

\* With lib.dll on the host, its .text section is at offset 0x2000.
HostFileSystems ==
  {<<>>, [name \in {Text_lib_dll} |-> WordOfNat(8192, 8)]}

UninitValues == {WordOfNat(0, 8), WordOfNat(28672, 8)}
XferOffsets == {0, 70}
XferLens == {64}

InitModules ==
  /\ sizeof_size_t = 8
  /\ reader = NoReader
  /\ ptr_bit \in {32, 64}
  /\ byte_order \in {"little", "big"}
  /\ core_bfd \in ModuleDumps(byte_order)
  /\ hostfs \in HostFileSystems
  /\ last_xfer_libraries = <<>>
  /\ CoreFileOnly
  /\ NoBreakpoints
  /\ last = NoCall

\* A call of windows_core_xfer_shared_libraries.  The value of an
\* unassigned base_addr is read only by a scan.
XferSharedLibraries ==
  \E uninit \in IF last_xfer_libraries = <<>> THEN UninitValues
                ELSE {WordOfNat(0, 8)} :
    \E built \in {BuildLibraryList(last_xfer_libraries, core_bfd, byte_order,
                                   ptr_bit, hostfs, uninit, sizeof_size_t)} :
      \E offset \in XferOffsets, len \in XferLens :
        LET res == TransferLibraryList(built[1], FreshBuf(len), offset, len)
        IN /\ last_xfer_libraries' = built
           /\ last' = [op |-> "xfer_shared_libraries", offset |-> offset,
                       len |-> len, ret |-> res.ret, readbuf |-> res.readbuf]
           /\ UNCHANGED <<reader, sizeof_size_t, ptr_bit, byte_order, core_bfd, hostfs,
                          target_has_execution, tib, target_memory, exec_bfd, debugger>>

NextModules == XferSharedLibraries

SpecModules == InitModules /\ [][NextModules]_vars

\* Whether the scanner takes a section for a module: a readable
\* `.coremodule/' section, or a readable `.module' section with a known tag,
\* a complete header and a declared name that fits.
ModuleAccepted(sect) ==
  /\ sect.readable
  /\ \/ startswith(sect.name, Name_coremodule)
     \/ /\ startswith(sect.name, Name_module)
        /\ Len(sect.contents) >= 4
        /\ \E hdr \in {12, 16} :
             /\ extract_unsigned_integer(sect.contents, 0, 4, byte_order)
                  = WordOfNat(IF hdr = 12 THEN 3 ELSE 4, 8)
             /\ Len(sect.contents) >= hdr
             /\ ~NameOverruns(hdr,
                   extract_unsigned_integer(sect.contents, hdr - 4, 4, byte_order),
                   Len(sect.contents), sizeof_size_t)

\* The header length of an accepted legacy section.
LegacyHeaderLen(sect) ==
  IF extract_unsigned_integer(sect.contents, 0, 4, byte_order) = WordOfNat(3, 8)
  THEN 12 ELSE 16

\* The name of an accepted module: the payload converted to host text, or
\* the bytes after the legacy header up to a NUL or the section's end.
ModuleNameOf(sect) ==
  IF startswith(sect.name, Name_coremodule)
  THEN core_get_module_name(sect.contents, byte_order)
  ELSE LET after == Drop(sect.contents, LegacyHeaderLen(sect))
       IN SubSeq(after, 1, SpanUntil(after, {0}))

\* Whether an accepted module states a load address, and the address: the
\* hex number in the section's name, or the legacy header's base field.
ModuleHasLoadAddr(sect) ==
  startswith(sect.name, Name_coremodule) => sscanf_llx(Drop(sect.name, 12)).assigned

ModuleLoadAddrOf(sect) ==
  IF startswith(sect.name, Name_coremodule)
  THEN sscanf_llx(Drop(sect.name, 12)).value
  ELSE extract_unsigned_integer(sect.contents, 4, LegacyHeaderLen(sect) - 8,
                                byte_order)

\* The accepted modules of the dump in discovery order, and those after
\* the first.
DiscoveredModules == SelectSeq(core_bfd, ModuleAccepted)
LaterModules == Tail(DiscoveredModules)

\* The module list the last call left in the cache, parsed.
ListedLibraries == ParseLibraryList(last_xfer_libraries[1])

\* C1: the module list holds no element for the first module discovered,
\* whichever convention it came from, and one element for every later
\* accepted module, in discovery order, with that module's name.
C1_FirstModuleOmitted ==
  last.op = "xfer_shared_libraries" =>
    LET listed  == ListedLibraries
        modules == DiscoveredModules
    IN /\ listed.ok
       /\ Len(listed.libs) = (IF modules = <<>> THEN 0 ELSE Len(modules) - 1)
       /\ \A i \in 1..Len(listed.libs) :
            listed.libs[i].name = xml_escape_text(ModuleNameOf(modules[i + 1]))

\* A dump whose first module is a legacy one followed by two `.coremodule/'
\* sections with different names.
C1_Witness ==
  /\ last.op = "xfer_shared_libraries"
  /\ Len(DiscoveredModules) = 3
  /\ startswith(DiscoveredModules[1].name, Name_module)
  /\ startswith(DiscoveredModules[2].name, Name_coremodule)
  /\ startswith(DiscoveredModules[3].name, Name_coremodule)
  /\ Len(ListedLibraries.libs) = 2
  /\ ListedLibraries.libs[1].name # ListedLibraries.libs[2].name

\* The segment address text of word addr on this target.
AddressText(addr) == paddress(ptr_bit, addr)

\* C2, as claimed: every listed module is emitted at its exact load address.
C2_ExactLoadAddress ==
  last.op = "xfer_shared_libraries" =>
    LET listed  == ListedLibraries
        modules == DiscoveredModules
    IN \A i \in 1..Len(listed.libs) :
         ModuleHasLoadAddr(modules[i + 1]) =>
           listed.libs[i].address = AddressText(ModuleLoadAddrOf(modules[i + 1]))

\* The .text offset of the DLL called name: that of the file on the host,
\* 0x1000 when there is no such file.
TextOffsetOf(name) ==
  IF name \in DOMAIN hostfs THEN hostfs[name] ELSE WordOfNat(4096, 8)

\* C2, amended: every listed module is emitted at its load address plus the
\* .text offset of its DLL, cut to the target's address width.
C2_LoadAddressPlusTextOffset ==
  last.op = "xfer_shared_libraries" =>
    LET listed  == ListedLibraries
        modules == DiscoveredModules
    IN \A i \in 1..Len(listed.libs) :
         ModuleHasLoadAddr(modules[i + 1]) =>
           listed.libs[i].address
             = AddressText(WordAdd(ModuleLoadAddrOf(modules[i + 1]),
                                   TextOffsetOf(ModuleNameOf(modules[i + 1]))))

\* The dump `.coremodule/1000' = app.exe, `.coremodule/2000' = lib.dll, with
\* no lib.dll on the host: the list holds lib.dll alone, at 0x3000.
C2_Witness ==
  /\ last.op = "xfer_shared_libraries"
  /\ core_bfd = <<App1000(byte_order), Lib2000(byte_order)>>
  /\ hostfs = <<>>
  /\ ListedLibraries.libs
       = <<[name |-> Text_lib_dll, address |-> <<48, 120, 51, 48, 48, 48>>]>>

(***************************************************************************)
(* The TIB -> PEB -> process-parameters walker: read_unicode_string and    *)
(* windows_info_proc.                                                      *)
(***************************************************************************)

\* target_read_memory (memaddr, myaddr, len): status 0 and all len bytes,
\* or a failure that transfers nothing.  Mapped addresses are small.
target_read_memory(mem, memaddr, len) ==
  IF /\ WordIsSmall(memaddr)
     /\ \A i \in 0..(len - 1) : (NatOfWord(memaddr) + i) \in DOMAIN mem
  THEN [status |-> 0,
        myaddr |-> [i \in 1..len |-> mem[NatOfWord(memaddr) + i - 1]]]
  ELSE [status |-> -1, myaddr |-> <<>>]

\* The entry a call of target_read_memory leaves in the log of target
\* accesses.
MemoryRead(memaddr, len) ==
  [call |-> "target_read_memory", memaddr |-> memaddr, len |-> len]

\* An empty gdb::optional<std::string>.
NoString == [has_value |-> FALSE, value |-> <<>>]

LengthAlwaysAccepted(length) ==
  TRUE

\* length > 0
LengthAccepted(length) ==
  length > 0

\* read_unicode_string (addr, byte_order, ptr_bytes, gdbarch): the
\* optional string and the target reads it made, in order.
read_unicode_string(mem, addr, order, ptr_bytes) ==
  LET read_length == target_read_memory(mem, addr, 2)
      length      == NatOfWord(extract_unsigned_integer(read_length.myaddr,
                                                         0, 2, order))
      buffer_addr == WordAdd(addr, WordOfNat(ptr_bytes, 8))
      read_buffer == target_read_memory(mem, buffer_addr, ptr_bytes)
      buffer      == extract_unsigned_integer(read_buffer.myaddr, 0,
                                              ptr_bytes, order)
      read_str    == target_read_memory(mem, buffer, length)
  IN IF read_length.status # 0
     THEN [str |-> NoString, reads |-> <<MemoryRead(addr, 2)>>]
     ELSE IF ~LengthAccepted(length)
     THEN [str |-> NoString, reads |-> <<MemoryRead(addr, 2)>>]
     ELSE IF read_buffer.status # 0
     THEN [str |-> NoString,
           reads |-> <<MemoryRead(addr, 2),
                       MemoryRead(buffer_addr, ptr_bytes)>>]
     ELSE [str |-> IF read_str.status # 0 THEN NoString
                   ELSE [has_value |-> TRUE,
                         value |-> CStringAt(
                           convert_between_encodings(read_str.myaddr, order)
                             \o <<0>>, 0)],
           reads |-> <<MemoryRead(addr, 2),
                       MemoryRead(buffer_addr, ptr_bytes),
                       MemoryRead(buffer, length)>>]

InfoProcOffsetsMixed(bit) ==
  IF bit = 32
  THEN [ptr_bytes |-> 4, peb_offset |-> 48, pp_offset |-> 16,
        cmd_offset |-> 112, cwd_offset |-> 56, exe_offset |-> 96]
  ELSE [ptr_bytes |-> 8, peb_offset |-> 96, pp_offset |-> 32,
        cmd_offset |-> 112, cwd_offset |-> 56, exe_offset |-> 96]

\* The structure offsets windows_info_proc selects by pointer width.
InfoProcOffsets(bit) ==
  IF bit = 32
  THEN [ptr_bytes |-> 4, peb_offset |-> 48, pp_offset |-> 16,
        cmd_offset |-> 64, cwd_offset |-> 36, exe_offset |-> 56]
  ELSE [ptr_bytes |-> 8, peb_offset |-> 96, pp_offset |-> 32,
        cmd_offset |-> 112, cwd_offset |-> 56, exe_offset |-> 96]

\* enum info_proc_what
info_proc_what ==
  {"IP_MINIMAL", "IP_MAPPINGS", "IP_STATUS", "IP_STAT", "IP_CMDLINE",
   "IP_EXE", "IP_CWD", "IP_FILES", "IP_ALL"}

want_cmd(what) == what = "IP_MINIMAL" \/ what = "IP_CMDLINE" \/ what = "IP_ALL"

want_cwd(what) == what = "IP_MINIMAL" \/ what = "IP_CWD" \/ what = "IP_ALL"

want_exe(what) == what = "IP_MINIMAL" \/ what = "IP_EXE" \/ what = "IP_ALL"

ArgsNeverRejected(args) ==
  FALSE

\* args && args[0]: args points to a NUL-terminated string that is not
\* empty.
ArgsRejected(args) ==
  args # nullptr /\ args[1] # 0

\* !target_has_execution () && core_bfd == nullptr
NoCurrentProcess(has_execution, core) ==
  ~has_execution /\ core = nullptr

FieldReportValueOnly(field, str) ==
  IF str.has_value
  THEN <<[stream |-> "gdb_printf", field |-> field, value |-> str.value]>>
  ELSE <<>>

\* What windows_info_proc writes for a requested field: the line
\* "<field> = '<value>'" or the warning "unable to read <field>".
FieldReport(field, str) ==
  IF str.has_value
  THEN <<[stream |-> "gdb_printf", field |-> field, value |-> str.value]>>
  ELSE <<[stream |-> "warning", field |-> field]>>

\* windows_info_proc (gdbarch, args, what): the error it throws ("" when it
\* returns), the reports it wrote and the target accesses it made, in order.
windows_info_proc(args, what, has_execution, core, bit, order, tibv, mem) ==
  LET o        == InfoProcOffsets(bit)
      wanted   == want_cmd(what) \/ want_cwd(what) \/ want_exe(what)
      have_tlb == wanted /\ tibv.ok
      peb_addr == WordAdd(tibv.tlb, WordOfNat(o.peb_offset, 8))
      read_peb == target_read_memory(mem, peb_addr, o.ptr_bytes)
      have_peb == have_tlb /\ read_peb.status = 0
      peb      == extract_unsigned_integer(read_peb.myaddr, 0, o.ptr_bytes,
                                           order)
      pp_addr  == WordAdd(peb, WordOfNat(o.pp_offset, 8))
      read_pp  == target_read_memory(mem, pp_addr, o.ptr_bytes)
      have_pp  == have_peb /\ read_pp.status = 0
      pp       == extract_unsigned_integer(read_pp.myaddr, 0, o.ptr_bytes,
                                           order)
      Field(want, offset) ==
        IF have_pp /\ want
        THEN read_unicode_string(mem, WordAdd(pp, WordOfNat(offset, 8)),
                                 order, o.ptr_bytes)
        ELSE [str |-> NoString, reads |-> <<>>]
      cmd == Field(want_cmd(what), o.cmd_offset)
      cwd == Field(want_cwd(what), o.cwd_offset)
      exe == Field(want_exe(what), o.exe_offset)
  IN IF ArgsRejected(args)
     THEN [error |-> "Only supported for the current process",
           output |-> <<>>, target_calls |-> <<>>]
     ELSE IF NoCurrentProcess(has_execution, core)
     THEN [error |-> "No current process",
           output |-> <<>>, target_calls |-> <<>>]
     ELSE [error |-> "",
           output |->
             (IF want_cmd(what) THEN FieldReport("cmdline", cmd.str) ELSE <<>>)
             \o (IF want_cwd(what) THEN FieldReport("cwd", cwd.str) ELSE <<>>)
             \o (IF want_exe(what) THEN FieldReport("exe", exe.str) ELSE <<>>),
           target_calls |->
             (IF wanted THEN <<[call |-> "target_get_tib_address"]>> ELSE <<>>)
             \o (IF have_tlb
                 THEN <<MemoryRead(peb_addr, o.ptr_bytes)>> ELSE <<>>)
             \o (IF have_peb
                 THEN <<MemoryRead(pp_addr, o.ptr_bytes)>> ELSE <<>>)
             \o cmd.reads \o cwd.reads \o exe.reads]

\* The bytes stored at addr, addr + 1, ...
Store(addr, bytes) ==
  [a \in addr..(addr + Len(bytes) - 1) |-> bytes[a - addr + 1]]

\* Where the inferiors of the model keep the TIB, the PEB, the process
\* parameters and the three string buffers.
ProcessLayout ==
  [tlb |-> 4096, peb |-> 8192, pp |-> 12288,
   cmdline |-> 16384, cwd |-> 16640, exe |-> 16896]

Text_cmdline == <<97, 32, 98>>        \* "a b"
Text_cwd     == <<67, 58, 92>>        \* "C:\"
Text_exe     == <<233, 46, 101>>      \* e-acute, then ".e"

InfoProcFields == {"cmdline", "cwd", "exe"}

\* What can be wrong with a UNICODE_STRING, and with the chain to them.
StringFaults ==
  {"none", "length zero", "length unreadable", "pointer unreadable",
   "buffer cut short"}

ChainFaults ==
  {"none", "no tib", "tib unreadable", "peb unreadable"}

\* The memory of a UNICODE_STRING at address at (Length, then Buffer at
\* the pointer size) and of its buffer.
UnicodeString(at, buffer, text, fault, bit, order) ==
  LET pb     == InfoProcOffsets(bit).ptr_bytes
      wide   == Utf16(text, order)
      length == IF fault = "length zero" THEN 0 ELSE Len(wide)
  IN (IF fault = "length unreadable" THEN <<>>
      ELSE Store(at, StoreInteger(WordOfNat(length, 2), 2, order)))
     @@ (IF fault = "pointer unreadable" THEN <<>>
         ELSE Store(at + pb, StoreInteger(WordOfNat(buffer, 8), pb, order)))
     @@ Store(buffer, IF fault = "buffer cut short"
                      THEN SubSeq(wide, 1, Len(wide) - 1) ELSE wide)

\* The memory of an inferior.
ProcessMemory(bit, order, chain, faults) ==
  LET o  == InfoProcOffsets(bit)
      at == ProcessLayout
      Pointer(to) == StoreInteger(WordOfNat(to, 8), o.ptr_bytes, order)
  IN (IF chain = "tib unreadable" THEN <<>>
      ELSE Store(at.tlb + o.peb_offset, Pointer(at.peb)))
     @@ (IF chain = "peb unreadable" THEN <<>>
         ELSE Store(at.peb + o.pp_offset, Pointer(at.pp)))
     @@ UnicodeString(at.pp + o.cmd_offset, at.cmdline, Text_cmdline,
                      faults.cmdline, bit, order)
     @@ UnicodeString(at.pp + o.cwd_offset, at.cwd, Text_cwd,
                      faults.cwd, bit, order)
     @@ UnicodeString(at.pp + o.exe_offset, at.exe, Text_exe,
                      faults.exe, bit, order)

\* The inferiors of the model: a fault in the chain; no fault; a fault in
\* one string while the other two are sound; the same fault in all three.
NoFaults == [f \in InfoProcFields |-> "none"]

Inferiors ==
  {[chain |-> c, faults |-> NoFaults] : c \in ChainFaults}
    \cup {[chain |-> "none", faults |-> [NoFaults EXCEPT ![f] = fault]] :
            f \in InfoProcFields, fault \in StringFaults}
    \cup {[chain |-> "none", faults |-> [f \in InfoProcFields |-> fault]] :
            fault \in StringFaults}

\* The args of "info proc": none, an empty string, a process id.
InfoProcArgs == {nullptr, <<0>>, <<52, 50, 0>>}

\* The addresses read_unicode_string is applied to: the three strings of
\* the process parameters, and the TIB, which holds no string.
UnicodeStringAddresses(bit) ==
  LET o == InfoProcOffsets(bit)
  IN {ProcessLayout.pp + o.cmd_offset, ProcessLayout.pp + o.cwd_offset,
      ProcessLayout.pp + o.exe_offset, ProcessLayout.tlb}

InitProc ==
  /\ sizeof_size_t = 8
  /\ reader = NoReader
  /\ ptr_bit \in {32, 64}
  /\ byte_order \in {"little", "big"}
  /\ core_bfd \in {nullptr, <<Section(<<46, 114, 101, 103>>, <<>>, TRUE)>>}
  /\ hostfs = <<>>
  /\ last_xfer_libraries = <<>>
  /\ target_has_execution \in BOOLEAN
  /\ \E inferior \in Inferiors :
       /\ tib = IF inferior.chain = "no tib" THEN [ok |-> FALSE]
                ELSE [ok |-> TRUE, tlb |-> WordOfNat(ProcessLayout.tlb, 8)]
       /\ target_memory = ProcessMemory(ptr_bit, byte_order, inferior.chain,
                                        inferior.faults)
  /\ exec_bfd = nullptr
  /\ NoBreakpoints
  /\ last = NoCall

\* The command "info proc": a call of windows_info_proc.
InfoProc ==
  \E args \in InfoProcArgs, what \in info_proc_what :
    \E res \in {windows_info_proc(args, what, target_has_execution, core_bfd,
                                  ptr_bit, byte_order, tib, target_memory)} :
      /\ last' = [op |-> "info_proc", args |-> args, what |-> what,
                  error |-> res.error, output |-> res.output,
                  target_calls |-> res.target_calls]
      /\ UNCHANGED <<reader, sizeof_size_t, ptr_bit, byte_order, core_bfd, hostfs, last_xfer_libraries,
                     target_has_execution, tib, target_memory, exec_bfd, debugger>>

\* A call of read_unicode_string.
ReadUnicodeString ==
  \E addr \in UnicodeStringAddresses(ptr_bit) :
    \E res \in {read_unicode_string(target_memory, WordOfNat(addr, 8),
                                    byte_order,
                                    InfoProcOffsets(ptr_bit).ptr_bytes)} :
      /\ last' = [op |-> "read_unicode_string", addr |-> addr,
                  str |-> res.str, reads |-> res.reads]
      /\ UNCHANGED <<reader, sizeof_size_t, ptr_bit, byte_order, core_bfd, hostfs, last_xfer_libraries,
                     target_has_execution, tib, target_memory, exec_bfd, debugger>>

NextProc == InfoProc \/ ReadUnicodeString

SpecProc == InitProc /\ [][NextProc]_vars

\* Reference predicates on the inferior's memory.
Mapped(a, n) ==
  \A i \in 0..(n - 1) : (a + i) \in DOMAIN target_memory

\* The pointer stored at address a, when it is mapped.
PointerAt(a) ==
  LET pb == ptr_bit \div 8
  IN extract_unsigned_integer([i \in 1..pb |-> target_memory[a + i - 1]],
                              0, pb, byte_order)

\* The Length field of the UNICODE_STRING at address a.
LengthAt(a) ==
  IF byte_order = "little"
  THEN target_memory[a] + 256 * target_memory[a + 1]
  ELSE 256 * target_memory[a] + target_memory[a + 1]

\* All of the UNICODE_STRING at a can be read: its length, which is not
\* zero, its buffer address, and every byte of the buffer.
StringComplete(a) ==
  /\ Mapped(a, 2)
  /\ LengthAt(a) > 0
  /\ Mapped(a + ptr_bit \div 8, ptr_bit \div 8)
  /\ WordIsSmall(PointerAt(a + ptr_bit \div 8))
  /\ Mapped(NatOfWord(PointerAt(a + ptr_bit \div 8)), LengthAt(a))

\* The host text of the complete UNICODE_STRING at a: one character for
\* each 2-byte unit of the whole buffer.
StringText(a) ==
  LET buffer == NatOfWord(PointerAt(a + ptr_bit \div 8))
  IN [k \in 1..(LengthAt(a) \div 2) |->
        LET unit == LengthAt(buffer + 2 * (k - 1))
        IN IF unit < 128 THEN unit ELSE 63]

\* C6: read_unicode_string returns a string exactly when the 2-byte length
\* can be read and is not zero, the buffer address can be read, and all
\* `length' bytes of the buffer can be read; the string is then the text
\* of the whole buffer, and in every other case the result is none.
C6_UnicodeStringAllOrNothing ==
  last.op = "read_unicode_string" =>
    /\ last.str.has_value <=> StringComplete(last.addr)
    /\ last.str.has_value => last.str.value = StringText(last.addr)
    /\ ~last.str.has_value => last.str = NoString

\* The length and the buffer address are read, the buffer is mapped except
\* for its last byte, and the result is none.
C6_Witness ==
  /\ last.op = "read_unicode_string"
  /\ Len(last.reads) = 3
  /\ Mapped(NatOfWord(last.reads[3].memaddr), last.reads[3].len - 1)
  /\ last.reads[3].len > 1
  /\ ~last.str.has_value

\* C7: a non-empty argument fails with "Only supported for the current
\* process", also when there is no process; no argument and neither a live
\* target nor a core file fails with "No current process"; a failing call
\* has read no target memory and printed nothing.
C7_InfoProcErrors ==
  last.op = "info_proc" =>
    LET arg_given  == Len(last.args) > 1
        no_process == ~target_has_execution /\ core_bfd = nullptr
    IN /\ arg_given => last.error = "Only supported for the current process"
       /\ (no_process /\ ~arg_given) => last.error = "No current process"
       /\ (~no_process /\ ~arg_given) => last.error = ""
       /\ last.error # "" => last.output = <<>> /\ last.target_calls = <<>>

\* An argument is given while there is no process.
C7_Witness ==
  /\ last.op = "info_proc"
  /\ Len(last.args) > 1
  /\ ~target_has_execution
  /\ core_bfd = nullptr
  /\ last.error = "Only supported for the current process"
  /\ last.output = <<>>

\* The fields each request asks for.
RequestedFields(what) ==
  CASE what \in {"IP_MINIMAL", "IP_ALL"} -> {"cmdline", "cwd", "exe"}
    [] what = "IP_CMDLINE" -> {"cmdline"}
    [] what = "IP_CWD" -> {"cwd"}
    [] what = "IP_EXE" -> {"exe"}
    [] OTHER -> {}

\* The TIB address is known, and the PEB pointer in the TIB and the
\* process-parameters pointer in the PEB can be read.
ChainReadable ==
  LET o == InfoProcOffsets(ptr_bit)
  IN /\ tib.ok
     /\ WordIsSmall(tib.tlb)
     /\ Mapped(NatOfWord(tib.tlb) + o.peb_offset, o.ptr_bytes)
     /\ WordIsSmall(PointerAt(NatOfWord(tib.tlb) + o.peb_offset))
     /\ Mapped(NatOfWord(PointerAt(NatOfWord(tib.tlb) + o.peb_offset))
                 + o.pp_offset, o.ptr_bytes)
     /\ WordIsSmall(PointerAt(NatOfWord(PointerAt(NatOfWord(tib.tlb)
                                + o.peb_offset)) + o.pp_offset))

\* The address of a field's UNICODE_STRING, when the chain is readable.
FieldAddress(field) ==
  LET o  == InfoProcOffsets(ptr_bit)
      pp == NatOfWord(PointerAt(NatOfWord(PointerAt(NatOfWord(tib.tlb)
                        + o.peb_offset)) + o.pp_offset))
  IN pp + (CASE field = "cmdline" -> o.cmd_offset
             [] field = "cwd" -> o.cwd_offset
             [] field = "exe" -> o.exe_offset)

\* C8: a call that does not fail writes exactly one report for each
\* requested field and none for the others; the report of a field is its
\* value line exactly when the chain and the field's own string can be
\* read, whatever happens to the other fields, and a warning otherwise.
C8_OneReportPerField ==
  (last.op = "info_proc" /\ last.error = "") =>
    \A field \in InfoProcFields :
      LET About(r) == r.field = field
          reports  == SelectSeq(last.output, About)
      IN IF field \in RequestedFields(last.what)
         THEN /\ Len(reports) = 1
              /\ reports[1].stream \in {"gdb_printf", "warning"}
              /\ reports[1].stream = "gdb_printf"
                   <=> (ChainReadable /\ StringComplete(FieldAddress(field)))
              /\ reports[1].stream = "gdb_printf"
                   => reports[1].value = StringText(FieldAddress(field))
         ELSE reports = <<>>

\* All three fields are requested; cwd cannot be read, cmdline and exe are
\* printed.
C8_Witness ==
  /\ last.op = "info_proc"
  /\ last.what = "IP_ALL"
  /\ last.error = ""
  /\ last.output
       = <<[stream |-> "gdb_printf", field |-> "cmdline", value |-> Text_cmdline],
           [stream |-> "warning", field |-> "cwd"],
           [stream |-> "gdb_printf", field |-> "exe", value |-> <<63, 46, 101>>]>>

(***************************************************************************)
(* is_linked_with_cygwin_dll: the PE import-directory walker.              *)
(***************************************************************************)

Name_idata ==   \* ".idata"
  <<46, 105, 100, 97, 116, 97>>

\* CYGWIN_DLL_NAME, "cygwin1.dll" with its terminating NUL: sizeof
\* (CYGWIN_DLL_NAME) is its length.
CYGWIN_DLL_NAME ==
  <<99, 121, 103, 119, 105, 110, 49, 46, 100, 108, 108, 0>>

\* sizeof (pe_import_directory_entry)
sizeof_pe_import_directory_entry == 20

\* A section of an executable: a section with its virtual address.
PeSection(name, contents, readable, vma) ==
  [name |-> name, contents |-> contents, readable |-> readable, vma |-> vma]

bfd_section_vma(sect) ==
  sect.vma

\* gdb_bfd_get_full_section_contents (abfd, section, &contents)
gdb_bfd_get_full_section_contents(sect) ==
  IF sect.readable THEN [ok |-> TRUE, data |-> sect.contents]
  ELSE [ok |-> FALSE, data |-> <<>>]

\* The byte order in which gdb's host reads dir_entry->name_rva: the
\* hosts modelled are little-endian, as the PE format is.
HostByteOrder == "little"

\* The smallest element of a non-empty set of numbers.
Min(set) ==
  CHOOSE x \in set : \A y \in set : x <= y

streq_prefix(buf, off, rhs) ==
  LET differ == {i \in 1..(Len(rhs) - 1) : ByteAt(buf, off + i - 1) # rhs[i]}
  IN [equal |-> differ = {},
      read  |-> IF differ = {} THEN Len(rhs) - 1 ELSE Min(differ)]

\* streq ((const char *) buf + off, rhs), strcmp (...) == 0, for an rhs
\* that ends in its only NUL: the bytes are compared up to the first
\* difference or the NUL; read is the number of bytes of buf looked at.
streq(buf, off, rhs) ==
  LET differ == {i \in 1..Len(rhs) : ByteAt(buf, off + i - 1) # rhs[i]}
  IN [equal |-> differ = {},
      read  |-> IF differ = {} THEN Len(rhs) ELSE Min(differ)]

EntryAlwaysFits(iter, end) ==
  TRUE

\* !(iter + sizeof (pe_import_directory_entry) > end)
EntryFits(iter, end) ==
  ~(iter + sizeof_pe_import_directory_entry > end)

NameAlwaysFits(name, end) ==
  TRUE

NameFitsWithoutNul(name, end) ==
  name + Len(CYGWIN_DLL_NAME) - 1 <= end

\* name + sizeof (CYGWIN_DLL_NAME) <= end
NameFits(name, end) ==
  name + Len(CYGWIN_DLL_NAME) <= end

\* va < idata_section_va || va >= idata_section_end_va
OutsideSection(va, idata_section_va, idata_section_end_va) ==
  WordLess(va, idata_section_va) \/ ~WordLess(va, idata_section_end_va)

\* The loop of is_linked_with_cygwin_dll from the entry at offset iter of
\* the section contents: the result, the warnings so far and the set of
\* offsets of the contents that have been read.
RECURSIVE WalkImportDirectory(_, _, _, _, _, _)
WalkImportDirectory(idata_contents, iter, idata_section_va, idata_section_end_va, warnings, accessed) ==
  LET end       == Len(idata_contents)
      dir_entry == Bytes(idata_contents, iter, sizeof_pe_import_directory_entry)
      seen      == accessed
                     \cup iter..(iter + sizeof_pe_import_directory_entry - 1)
      name_va   == extract_unsigned_integer(dir_entry, 12, 4, HostByteOrder)
      name      == NatOfWord(WordSub(name_va, idata_section_va))
      cmp       == streq(idata_contents, name, CYGWIN_DLL_NAME)
      compared  == seen \cup name..(name + cmp.read - 1)
  IN IF ~EntryFits(iter, end)
     THEN [aborted |-> FALSE, ret |-> FALSE, accessed |-> accessed,
           warnings |-> warnings \o <<"unexpected end of .idata section">>]
     ELSE IF \A i \in 1..sizeof_pe_import_directory_entry : dir_entry[i] = 0
     THEN [aborted |-> FALSE, ret |-> FALSE, accessed |-> seen,
           warnings |-> warnings]
     ELSE IF OutsideSection(name_va, idata_section_va, idata_section_end_va)
     THEN [aborted |-> FALSE, ret |-> FALSE, accessed |-> seen,
           warnings |-> warnings \o
             <<"name's virtual address is outside .idata section's range">>]
     ELSE IF NameFits(name, end) /\ cmp.equal
     THEN [aborted |-> FALSE, ret |-> TRUE, accessed |-> compared,
           warnings |-> warnings]
     ELSE WalkImportDirectory(idata_contents,
                              iter + sizeof_pe_import_directory_entry,
                              idata_section_va, idata_section_end_va, warnings,
                              IF NameFits(name, end) THEN compared ELSE seen)

\* is_linked_with_cygwin_dll (abfd).  A failing gdb_assert ends gdb's
\* command with an internal error: aborted.
is_linked_with_cygwin_dll(abfd) ==
  LET idata_section      == bfd_get_section_by_name(abfd.sections, Name_idata)
      sect               == abfd.sections[idata_section]
      idata_section_size == bfd_section_size(sect)
      import_table_va    == abfd.import_table_va
      idata_section_va   == WordSub(bfd_section_vma(sect), abfd.ImageBase)
      idata_section_end_va ==
        WordAdd(idata_section_va, WordOfNat(idata_section_size, 8))
      got                == gdb_bfd_get_full_section_contents(sect)
      Return(ret, warnings) ==
        [aborted |-> FALSE, ret |-> ret, accessed |-> {}, warnings |-> warnings]
  IN IF idata_section = 0 THEN Return(FALSE, <<>>)
     ELSE IF WordLess(bfd_section_vma(sect), abfd.ImageBase)
     THEN [aborted |-> TRUE, ret |-> FALSE, accessed |-> {}, warnings |-> <<>>]
     ELSE IF OutsideSection(import_table_va, idata_section_va,
                            idata_section_end_va)
     THEN Return(FALSE, <<"import table's virtual address is outside .idata section's range">>)
     ELSE IF ~got.ok
     THEN Return(FALSE, <<"failed to get contents of .idata section">>)
     ELSE WalkImportDirectory(got.data,
                              NatOfWord(WordSub(import_table_va,
                                                idata_section_va)),
                              idata_section_va, idata_section_end_va,
                              <<>>, {})

\* The executables of the model: the image base and the address of the
\* `.idata' section relative to it.
IdataLayout ==
  [ImageBase |-> 4194304, section_rva |-> 8192]

\* The names the import entries of the model point to; the last one lies
\* at the end of the section, which ends before a NUL.
NamePool ==
  CYGWIN_DLL_NAME                                                \* at 0
    \o <<67, 121, 103, 119, 105, 110, 49, 46, 100, 108, 108, 0>>        \* 12
    \o <<99, 121, 103, 119, 105, 110, 49, 46, 100, 108, 108, 120, 0>>   \* 24
    \o <<120, 99, 121, 103, 119, 105, 110, 49, 46, 100, 108, 108, 0>>   \* 37
    \o <<102, 111, 111, 46, 100, 108, 108, 0>>                          \* 50
    \o SubSeq(CYGWIN_DLL_NAME, 1, Len(CYGWIN_DLL_NAME) - 1)             \* 58

\* What an import entry of the model names: one of the names of the pool,
\* the import table itself, or an address outside the section.
ImportNames ==
  {"cygwin1.dll", "Cygwin1.dll", "cygwin1.dllx", "xcygwin1.dll", "foo.dll",
   "unterminated", "table", "outside"}

PoolOffset(kind) ==
  CASE kind = "cygwin1.dll" -> 0
    [] kind = "Cygwin1.dll" -> 12
    [] kind = "cygwin1.dllx" -> 24
    [] kind = "xcygwin1.dll" -> 37
    [] kind = "foo.dll" -> 50
    [] kind = "unterminated" -> 58

\* A pe_import_directory_entry as stored in the file: five little-endian
\* 32-bit fields, the fourth the name's address.
ImportEntry(name_rva) ==
  <<0, 0, 0, 0>> \o <<1, 0, 0, 0>> \o <<0, 0, 0, 0>>
    \o StoreInteger(name_rva, 4, "little") \o <<0, 0, 0, 0>>

\* The contents of an `.idata' section: an entry for each of names, the
\* all-zero entry when terminated, the name pool when pooled.
IdataContents(names, terminated, pooled) ==
  LET size      == sizeof_pe_import_directory_entry
      table_len == size * (Len(names) + IF terminated THEN 1 ELSE 0)
      NameRva(kind) ==
        IF kind = "outside" THEN WordOfNat(0, 8)
        ELSE IF kind = "table" THEN WordOfNat(IdataLayout.section_rva, 8)
        ELSE WordOfNat(IdataLayout.section_rva + table_len + PoolOffset(kind), 8)
  IN [i \in 1..table_len |->
        IF ((i - 1) \div size) + 1 > Len(names) THEN 0
        ELSE ImportEntry(NameRva(names[((i - 1) \div size) + 1]))
               [((i - 1) % size) + 1]]
     \o (IF pooled THEN NamePool ELSE <<>>)

\* Where the header of an executable says the import table is.
ImportTablePlaces ==
  {"start", "second entry", "last byte", "below", "end", "beyond"}

ImportTableVa(place, size) ==
  LET rva == IdataLayout.section_rva
  IN CASE place = "start" -> WordOfNat(rva, 8)
       [] place = "second entry" ->
            WordOfNat(rva + sizeof_pe_import_directory_entry, 8)
       [] place = "last byte" -> WordOfNat(rva + size - 1, 8)
       [] place = "below" -> WordOfNat(rva - 1, 8)
       [] place = "end" -> WordOfNat(rva + size, 8)
       [] place = "beyond" -> <<255, 255, 255, 255, 0, 0, 0, 0>>

\* What can be wrong with the container of an `.idata' section.
ContainerFaults ==
  {"none", "no .idata", "unreadable", "below image base"}

\* An executable as BFD presents it.
Executable(contents, place, fault) ==
  LET base == IdataLayout.ImageBase
      text == PeSection(<<46, 116, 101, 120, 116>>, <<>>, TRUE,
                        WordOfNat(base + 4096, 8))
      idata == PeSection(Name_idata, contents, fault # "unreadable",
                         IF fault = "below image base"
                         THEN WordOfNat(IdataLayout.section_rva, 8)
                         ELSE WordOfNat(base + IdataLayout.section_rva, 8))
  IN [ImageBase |-> WordOfNat(base, 8),
      import_table_va |-> ImportTableVa(place, Len(contents)),
      sections |-> IF fault = "no .idata" THEN <<text>> ELSE <<text, idata>>]

MaxEntries == 2

\* Every import table of up to MaxEntries entries, with and without its
\* terminator and name pool, in a sound container; and a table that names
\* cygwin1.dll in each faulty container.
Executables ==
  {Executable(IdataContents(names, terminated, pooled), place, "none") :
     names \in UNION {[1..n -> ImportNames] : n \in 0..MaxEntries},
     terminated \in BOOLEAN, pooled \in BOOLEAN, place \in ImportTablePlaces}
    \cup {Executable(IdataContents(<<"cygwin1.dll">>, TRUE, TRUE), place, fault) :
            place \in ImportTablePlaces, fault \in ContainerFaults}

InitIdata ==
  /\ sizeof_size_t = 8
  /\ reader = NoReader
  /\ ptr_bit = 64
  /\ byte_order = "little"
  /\ core_bfd = nullptr
  /\ hostfs = <<>>
  /\ last_xfer_libraries = <<>>
  /\ target_has_execution = FALSE
  /\ tib = [ok |-> FALSE]
  /\ target_memory = <<>>
  /\ exec_bfd \in Executables
  /\ NoBreakpoints
  /\ last = NoCall

\* A call of is_linked_with_cygwin_dll on the executable.
IsLinkedWithCygwinDll ==
  \E res \in {is_linked_with_cygwin_dll(exec_bfd)} :
    /\ last' = [op |-> "is_linked_with_cygwin_dll", aborted |-> res.aborted,
                ret |-> res.ret, warnings |-> res.warnings,
                accessed |-> res.accessed]
    /\ UNCHANGED <<reader, sizeof_size_t, ptr_bit, byte_order, core_bfd, hostfs, last_xfer_libraries,
                   target_has_execution, tib, target_memory, exec_bfd, debugger>>

NextIdata == IsLinkedWithCygwinDll

SpecIdata == InitIdata /\ [][NextIdata]_vars

\* Reference predicates on the executable.
HasIdata ==
  \E i \in 1..Len(exec_bfd.sections) : exec_bfd.sections[i].name = Name_idata

Idata ==
  exec_bfd.sections[CHOOSE i \in 1..Len(exec_bfd.sections) :
                      exec_bfd.sections[i].name = Name_idata]

IdataSize ==
  Len(Idata.contents)

\* va, relative to the image base, is the address of a byte of `.idata'.
InIdata(va) ==
  LET off == WordSub(va, WordSub(Idata.vma, exec_bfd.ImageBase))
  IN WordIsSmall(off) /\ NatOfWord(off) < IdataSize

\* The offset in `.idata' of such an address.
OffsetInIdata(va) ==
  NatOfWord(WordSub(va, WordSub(Idata.vma, exec_bfd.ImageBase)))

\* The walk of the import table starts.
WalkStarts ==
  /\ HasIdata
  /\ ~WordLess(Idata.vma, exec_bfd.ImageBase)
  /\ InIdata(exec_bfd.import_table_va)
  /\ Idata.readable

\* The offset of entry k = 0, 1, ... of the import table, and the name
\* address stored in it.
EntryOffset(k) ==
  OffsetInIdata(exec_bfd.import_table_va) + sizeof_pe_import_directory_entry * k

EntryNameVa(k) ==
  Resize(SubSeq(Idata.contents, EntryOffset(k) + 13, EntryOffset(k) + 16), 8)

\* Entry k lies in the section, is not the all-zero terminator and has
\* its name in the section.
EntryWalkable(k) ==
  /\ EntryOffset(k) + sizeof_pe_import_directory_entry <= IdataSize
  /\ \E i \in 1..sizeof_pe_import_directory_entry :
       Idata.contents[EntryOffset(k) + i] # 0
  /\ InIdata(EntryNameVa(k))

\* The walk reaches entry k: it starts, and no entry up to k ends it.
EntryReached(k) ==
  WalkStarts /\ \A j \in 0..k : EntryWalkable(j)

\* The name of entry k is "cygwin1.dll" followed by a NUL.
EntryNamesCygwin(k) ==
  LET name == OffsetInIdata(EntryNameVa(k))
  IN /\ name + Len(CYGWIN_DLL_NAME) <= IdataSize
     /\ SubSeq(Idata.contents, name + 1, name + Len(CYGWIN_DLL_NAME))
          = CYGWIN_DLL_NAME

\* C9: is_linked_with_cygwin_dll returns true exactly when an entry the
\* walk reaches has the NUL-terminated name "cygwin1.dll"; without an
\* `.idata' section it returns false.
C9_TrueIffCygwinEntryReached ==
  last.op = "is_linked_with_cygwin_dll" =>
    IF HasIdata
    THEN (~last.aborted /\ last.ret)
           <=> (\E k \in 0..(IdataSize \div sizeof_pe_import_directory_entry) :
                  EntryReached(k) /\ EntryNamesCygwin(k))
    ELSE ~last.aborted /\ ~last.ret

\* The second entry names cygwin1.dll, the first one does not, and the
\* result is true.
C9_Witness ==
  /\ last.op = "is_linked_with_cygwin_dll"
  /\ last.ret
  /\ EntryReached(1)
  /\ EntryNamesCygwin(1)
  /\ ~EntryNamesCygwin(0)

\* C10: every offset of the section contents that is_linked_with_cygwin_dll
\* reads lies in [0, section size), and nothing is read when the walk does
\* not start.
C10_ReadsInsideSection ==
  last.op = "is_linked_with_cygwin_dll" =>
    IF WalkStarts
    THEN \A off \in last.accessed : off >= 0 /\ off < IdataSize
    ELSE last.accessed = {}

\* The walk reaches an entry whose name lies less than 12 bytes before the
\* end of the section, and goes on to the end of the section.
C10_Witness ==
  /\ last.op = "is_linked_with_cygwin_dll"
  /\ \E k \in 0..MaxEntries :
       /\ EntryReached(k)
       /\ OffsetInIdata(EntryNameVa(k)) + Len(CYGWIN_DLL_NAME) > IdataSize
       /\ \E off \in last.accessed : off >= EntryOffset(k + 1)
  /\ ~last.ret

\* C11: is_linked_with_cygwin_dll never aborts, whatever the executable,
\* also when the `.idata' section lies below the image base; a call writes
\* at most one warning, and a call that warns returns false.
C11_NeverAborts ==
  last.op = "is_linked_with_cygwin_dll" =>
    /\ ~last.aborted
    /\ Len(last.warnings) <= 1
    /\ last.warnings # <<>> => ~last.ret

(***************************************************************************)
(* The entry-point breakpoint: entry_point_breakpoint::re_set and          *)
(* entry_point_breakpoint::check_status.                                   *)
(***************************************************************************)

\* A bp_location and a breakpoint with its locations.  `inserted' is the
\* flag gdb keeps, `armed' says whether the target has the location in
\* place: the system clears the debug registers when a process reaches its
\* entry point, so an inserted hardware location need not be armed.
Location(pspace, address, loc_type, inserted, armed) ==
  [pspace |-> pspace, address |-> address, loc_type |-> loc_type,
   inserted |-> inserted, armed |-> armed]

Breakpoint(kind, locspec, locations) ==
  [kind |-> kind, locspec |-> locspec, locations |-> locations]

\* update_breakpoint_locations (b, filter_pspace, sals, {}) for the sals
\* decode_location_spec makes of an address: the locations of b in
\* filter_pspace are replaced by one location at the address.
update_breakpoint_locations(b, filter_pspace, address) ==
  LET Elsewhere(loc) == loc.pspace # filter_pspace
  IN [b EXCEPT !.locations =
        SelectSeq(b.locations, Elsewhere)
          \o <<Location(filter_pspace, address, "bp_loc_software_breakpoint",
                        FALSE, FALSE)>>]

EntryPointAlwaysChanged(b, pspace, entry_point) ==
  FALSE

\* A location of b in pspace has the address entry_point.
EntryPointUnchanged(b, pspace, entry_point) ==
  \E i \in 1..Len(b.locations) :
    b.locations[i].pspace = pspace /\ b.locations[i].address = entry_point

\* entry_point_breakpoint::re_set for breakpoint b: the breakpoint
\* afterwards and the number of calls of update_breakpoint_locations.
re_set(b, pspace, info) ==
  IF EntryPointUnchanged(b, pspace, info.entry_point)
  THEN [b |-> b, relocations |-> 0]
  ELSE [b |-> update_breakpoint_locations(b, pspace, info.entry_point),
        relocations |-> 1]

ResetsEveryHardwareLocation(loc, pspace) ==
  /\ loc.pspace = pspace
  /\ loc.loc_type \in {"bp_loc_hardware_breakpoint", "bp_loc_hardware_watchpoint"}

\* loc.inserted && loc.pspace == current_program_space
\* && (loc.loc_type == bp_loc_hardware_breakpoint
\*     || loc.loc_type == bp_loc_hardware_watchpoint)
IsActiveHardwareLocation(loc, pspace) ==
  /\ loc.inserted
  /\ loc.pspace = pspace
  /\ loc.loc_type \in {"bp_loc_hardware_breakpoint", "bp_loc_hardware_watchpoint"}

RemovalIgnored(id, remove_fails) ==
  TRUE

\* b.remove_location (&loc, REMOVE_BREAKPOINT) == 0
RemovalSucceeded(id, remove_fails) ==
  id \notin remove_fails

\* The locations of all breakpoints, each as <<breakpoint, location>>.
LocationIds(bps) ==
  UNION {{<<b, l>> : l \in 1..Len(bps[b].locations)} : b \in 1..Len(bps)}

\* The locations check_status calls remove_location on.
ActiveHardwareLocations(bps, pspace) ==
  {id \in LocationIds(bps) :
     IsActiveHardwareLocation(bps[id[1]].locations[id[2]], pspace)}

\* entry_point_breakpoint::check_status (bs).  remove_fails and
\* insert_fails are the locations on which the target refuses
\* remove_location and insert_location: a removal that succeeds takes the
\* location out of the target, an insertion that succeeds puts it there;
\* neither changes the flag `inserted'.  removed and inserted are the
\* locations the two are called on.

check_status(bs, bps, pspace, remove_fails, insert_fails) ==
  LET active == ActiveHardwareLocations(bps, pspace)
      again  == {id \in active : RemovalSucceeded(id, remove_fails)}
  IN [bs |-> [bs EXCEPT !.stop = 0],
      breakpoints |->
        [b \in 1..Len(bps) |->
           [bps[b] EXCEPT !.locations =
              [l \in 1..Len(bps[b].locations) |->
                 IF <<b, l>> \in again
                 THEN [bps[b].locations[l] EXCEPT
                         !.armed = <<b, l>> \notin insert_fails]
                 ELSE bps[b].locations[l]]]],
      removed |-> active,
      inserted |-> again]

(***************************************************************************)
(* windows_solib_create_inferior_hook                                      *)
(***************************************************************************)

Name_corebase ==   \* ".corebase"
  <<46, 99, 111, 114, 101, 98, 97, 115, 101>>

\* The structure offsets windows_solib_create_inferior_hook selects by
\* pointer width.
HookOffsets(bit) ==
  IF bit = 32
  THEN [ptr_bytes |-> 4, peb_offset |-> 48, base_offset |-> 8]
  ELSE [ptr_bytes |-> 8, peb_offset |-> 96, base_offset |-> 16]

RebaseSlideToBase(exec_base, vmaddr) ==
  exec_base

\* exec_base - vmaddr
RebaseSlide(exec_base, vmaddr) ==
  WordSub(exec_base, vmaddr)

KeepList(list) ==
  list

\* xfree (last_xfer_libraries); last_xfer_libraries = NULL;
DiscardList(list) ==
  nullptr

FallsBackWheneverDumped(exec_base, core) ==
  core # nullptr

\* exec_base == 0 && core_bfd != nullptr
FallsBackToDump(exec_base, core) ==
  exec_base = WordOfNat(0, 8) /\ core # nullptr

CurrentMapping(pspace) ==
  WordAdd(pspace.exec_bfd.ImageBase, pspace.symfile_object_file.offset)

\* pe_data (current_program_space->exec_bfd ())->pe_opthdr.ImageBase
HeaderImageBase(pspace) ==
  pspace.exec_bfd.ImageBase

CreatedAgain(created) ==
  TRUE

\* !entry_point_breakpoint_created
NotYetCreated(created) ==
  ~created

\* The body of windows_solib_create_inferior_hook in program space pspace
\* (its exec_bfd () and symfile_object_file): the base it resolves, and in
\* events what it does with it, in order: objfile_rebase (slide), the
\* discarding of the module list, info->entry_point = value,
\* install_breakpoint of a breakpoint at an address.
windows_solib_create_inferior_hook(bit, order, has_execution, tibv, mem, core, pspace, created) ==
  LET o        == HookOffsets(bit)
      zero     == WordOfNat(0, 8)
      have_tlb == has_execution /\ tibv.ok
      read_peb == target_read_memory(mem, WordAdd(tibv.tlb, WordOfNat(o.peb_offset, 8)),
                                     o.ptr_bytes)
      peb      == extract_unsigned_integer(read_peb.myaddr, 0, o.ptr_bytes, order)
      read_base == target_read_memory(mem, WordAdd(peb, WordOfNat(o.base_offset, 8)),
                                      o.ptr_bytes)
      live_base ==
        IF have_tlb /\ read_peb.status = 0 /\ read_base.status = 0
        THEN extract_unsigned_integer(read_base.myaddr, 0, o.ptr_bytes, order)
        ELSE zero
      section  == bfd_get_section_by_name(core, Name_corebase)
      corebase == bfd_get_section_contents(core[section], 0, 8)
      exec_base ==
        IF FallsBackToDump(live_base, core) /\ section # 0 /\ corebase.ok
        THEN extract_unsigned_integer(corebase.data, 0, 8, HostByteOrder)
        ELSE live_base
      vmaddr   == HeaderImageBase(pspace)
      entry_point == WordAdd(exec_base, pspace.exec_bfd.AddressOfEntryPoint)
  IN [exec_base |-> exec_base,
      events |->
        (IF pspace.symfile_object_file.present /\ exec_base # zero
            /\ vmaddr # exec_base
         THEN <<[ev |-> "objfile_rebase", value |-> RebaseSlide(exec_base, vmaddr)]>>
         ELSE <<>>)
        \o <<[ev |-> "last_xfer_libraries", value |-> zero]>>
        \o (IF has_execution /\ exec_base # zero
            THEN <<[ev |-> "entry_point", value |-> entry_point]>>
                 \o (IF NotYetCreated(created)
                     THEN <<[ev |-> "install_breakpoint", value |-> entry_point]>>
                     ELSE <<>>)
            ELSE <<>>)]

\* The values of the events of one kind.
EventValues(events, kind) ==
  LET OfKind(e) == e.ev = kind
  IN [i \in 1..Len(SelectSeq(events, OfKind)) |-> SelectSeq(events, OfKind)[i].value]

\* The addresses of the model's debug sessions: the link-time image base,
\* the base a relocated process and a dump report, the entry points of
\* the executables of the two program spaces, and breakpoint addresses.
HookLayout ==
  [ImageBase |-> 4194304, relocated |-> 5242880, corebase |-> 6291456,
   entry |-> <<5376, 5632>>, code |-> 4198400, data |-> 4202496]

ProgramSpaceIds == {1, 2}

\* A program space: the header of its executable and its symbol file, which
\* objfile_rebase moves by adding the slide to its offset.
ProgramSpace(id, has_symfile) ==
  [exec_bfd |-> [ImageBase |-> WordOfNat(HookLayout.ImageBase, 8),
                 AddressOfEntryPoint |-> WordOfNat(HookLayout.entry[id], 8)],
   symfile_object_file |-> [present |-> has_symfile,
                            offset |-> WordOfNat(0, 8)]]

\* The memory of a live process whose PEB holds image base `base'.
HookMemory(bit, order, base, fault) ==
  LET o == HookOffsets(bit)
      Pointer(to) == StoreInteger(WordOfNat(to, 8), o.ptr_bytes, order)
  IN (IF fault = "tib unreadable" THEN <<>>
      ELSE Store(ProcessLayout.tlb + o.peb_offset, Pointer(ProcessLayout.peb)))
     @@ (IF fault = "base unreadable" THEN <<>>
         ELSE Store(ProcessLayout.peb + o.base_offset, Pointer(base)))

\* The targets gdb can be connected to: none that runs, or a live process.
Targets(bit, order) ==
  {[has_execution |-> FALSE, tib |-> [ok |-> FALSE], memory |-> <<>>],
   [has_execution |-> TRUE, tib |-> [ok |-> FALSE],
    memory |-> HookMemory(bit, order, HookLayout.relocated, "none")]}
  \cup {[has_execution |-> TRUE,
         tib |-> [ok |-> TRUE, tlb |-> WordOfNat(ProcessLayout.tlb, 8)],
         memory |-> HookMemory(bit, order, base, "none")] :
          base \in {HookLayout.ImageBase, HookLayout.relocated, 0}}
  \cup {[has_execution |-> TRUE,
         tib |-> [ok |-> TRUE, tlb |-> WordOfNat(ProcessLayout.tlb, 8)],
         memory |-> HookMemory(bit, order, HookLayout.relocated, fault)] :
          fault \in {"tib unreadable", "base unreadable"}}

\* The dumps of the model's debug sessions: none, one with a `.corebase'
\* section and two modules, one with the modules only.
CorebaseSection ==
  Section(Name_corebase,
          StoreInteger(WordOfNat(HookLayout.corebase, 8), 8, HostByteOrder), TRUE)

HookDumps(order) ==
  <<nullptr, <<CorebaseSection, App1000(order), Lib2000(order)>>,
    <<App1000(order), Lib2000(order)>>>>

\* The user's breakpoints: a hardware breakpoint with a location in each
\* program space, a hardware watchpoint and a software breakpoint.  in1, in2
\* and in3 say which hardware locations are inserted, armed whether the
\* target still has the inserted ones.
UserBreakpoints(in1, in2, in3, armed) ==
  <<Breakpoint("bp_hardware_breakpoint", WordOfNat(HookLayout.code, 8),
               <<Location(1, WordOfNat(HookLayout.code, 8),
                          "bp_loc_hardware_breakpoint", in1, in1 /\ armed),
                 Location(2, WordOfNat(HookLayout.code, 8),
                          "bp_loc_hardware_breakpoint", in2, in2 /\ armed)>>),
    Breakpoint("bp_hardware_watchpoint", WordOfNat(HookLayout.data, 8),
               <<Location(1, WordOfNat(HookLayout.data, 8),
                          "bp_loc_hardware_watchpoint", in3, in3 /\ armed)>>),
    Breakpoint("bp_breakpoint", WordOfNat(HookLayout.code, 8),
               <<Location(1, WordOfNat(HookLayout.code, 8),
                          "bp_loc_software_breakpoint", TRUE, TRUE)>>)>>

MaxHookRuns == 2

\* The sessions of the model: the pointer width of the architecture and the
\* dump that is loaded.
HookSessions ==
  {[bit |-> bit, dump |-> dump] : bit \in {32, 64}, dump \in 1..3}

InitHook ==
  /\ sizeof_size_t = 8
  /\ reader = NoReader
  /\ byte_order = "little"
  /\ \E session \in HookSessions :
       /\ ptr_bit = session.bit
       /\ core_bfd = HookDumps(byte_order)[session.dump]
  /\ hostfs = <<>>
  /\ last_xfer_libraries = <<>>
  /\ \E t \in Targets(ptr_bit, byte_order) :
       /\ target_has_execution = t.has_execution
       /\ tib = t.tib
       /\ target_memory = t.memory
  /\ exec_bfd = nullptr
  /\ current_program_space \in ProgramSpaceIds
  /\ program_spaces = [id \in ProgramSpaceIds |-> ProgramSpace(id, id = 1)]
  /\ windows_info = [id \in ProgramSpaceIds |-> [entry_point |-> WordOfNat(0, 8)]]
  /\ breakpoints = UserBreakpoints(TRUE, TRUE, TRUE, TRUE)
  /\ entry_point_breakpoint_created = FALSE
  /\ hook_runs = 0
  /\ last = NoCall

\* A run of windows_solib_create_inferior_hook.
SolibCreateInferiorHook ==
  /\ hook_runs < MaxHookRuns
  /\ \E res \in {windows_solib_create_inferior_hook(
                   ptr_bit, byte_order, target_has_execution, tib,
                   target_memory, core_bfd,
                   program_spaces[current_program_space],
                   entry_point_breakpoint_created)} :
       LET slides   == EventValues(res.events, "objfile_rebase")
           entries  == EventValues(res.events, "entry_point")
           installs == EventValues(res.events, "install_breakpoint")
       IN /\ program_spaces' =
               IF slides = <<>> THEN program_spaces
               ELSE [program_spaces EXCEPT
                       ![current_program_space].symfile_object_file.offset =
                         WordAdd(@, slides[1])]
          /\ last_xfer_libraries' = DiscardList(last_xfer_libraries)
          /\ windows_info' =
               IF entries = <<>> THEN windows_info
               ELSE [windows_info EXCEPT
                       ![current_program_space].entry_point = entries[1]]
          /\ breakpoints' =
               IF installs = <<>> THEN breakpoints
               ELSE Append(breakpoints,
                           Breakpoint("entry_point_breakpoint", installs[1], <<>>))
          /\ entry_point_breakpoint_created' =
               (entry_point_breakpoint_created \/ installs # <<>>)
          /\ hook_runs' = hook_runs + 1
          /\ last' = [op |-> "solib_create_inferior_hook",
                      exec_base |-> res.exec_base, events |-> res.events]
  /\ UNCHANGED <<reader, sizeof_size_t, ptr_bit, byte_order, core_bfd, hostfs, target_has_execution,
                 tib, target_memory, exec_bfd, current_program_space>>

\* Whether breakpoint b is an entry-point breakpoint.
IsEntryPointBreakpoint(b) ==
  b.kind = "entry_point_breakpoint"

\* breakpoint_re_set reaches an entry-point breakpoint: a call of its
\* re_set.
ReSet ==
  \E i \in 1..Len(breakpoints) :
    /\ IsEntryPointBreakpoint(breakpoints[i])
    /\ \E res \in {re_set(breakpoints[i], current_program_space,
                          windows_info[current_program_space])} :
         /\ breakpoints' = [breakpoints EXCEPT ![i] = res.b]
         /\ last' = [op |-> "re_set", relocations |-> res.relocations]
    /\ UNCHANGED <<reader, sizeof_size_t, ptr_bit, byte_order, core_bfd, hostfs, last_xfer_libraries,
                   target_has_execution, tib, target_memory, exec_bfd,
                   current_program_space, program_spaces, windows_info,
                   entry_point_breakpoint_created, hook_runs>>

\* gdb switches to another program space.
SwitchProgramSpace ==
  /\ \E id \in ProgramSpaceIds \ {current_program_space} :
       current_program_space' = id
  /\ last' = [op |-> "set_current_program_space"]
  /\ UNCHANGED <<reader, sizeof_size_t, ptr_bit, byte_order, core_bfd, hostfs, last_xfer_libraries,
                 target_has_execution, tib, target_memory, exec_bfd,
                 program_spaces, windows_info, breakpoints,
                 entry_point_breakpoint_created, hook_runs>>

\* The target changes: a process starts, is relocated, or goes away.
TargetChanges ==
  /\ \E t \in Targets(ptr_bit, byte_order) :
       /\ <<t.has_execution, t.tib, t.memory>>
            # <<target_has_execution, tib, target_memory>>
       /\ target_has_execution' = t.has_execution
       /\ tib' = t.tib
       /\ target_memory' = t.memory
  /\ last' = [op |-> "target"]
  /\ UNCHANGED <<reader, sizeof_size_t, ptr_bit, byte_order, core_bfd, hostfs, last_xfer_libraries,
                 exec_bfd, debugger>>

\* The module list of the dump is read.
XferLibrariesOfDump ==
  core_bfd # nullptr /\ XferSharedLibraries

NextHook ==
  \/ SolibCreateInferiorHook
  \/ ReSet
  \/ SwitchProgramSpace
  \/ TargetChanges

SpecHook == InitHook /\ [][NextHook]_vars

\* The same sessions with enumerations of the dump's modules between the
\* runs of the hook.
NextCache ==
  \/ SolibCreateInferiorHook
  \/ TargetChanges
  \/ XferLibrariesOfDump

SpecCache == InitHook /\ [][NextCache]_vars

(***************************************************************************)
(* Hits of the entry-point breakpoint                                      *)
(***************************************************************************)

\* The entry-point breakpoint after re_set has placed it in program space 1
\* and, with both, in program space 2 as well.
EntryPointBreakpoint(both) ==
  LET EntryPoint(id) == WordOfNat(HookLayout.relocated + HookLayout.entry[id], 8)
  IN Breakpoint("entry_point_breakpoint", EntryPoint(1),
       <<Location(1, EntryPoint(1), "bp_loc_software_breakpoint", TRUE, TRUE)>>
       \o (IF both
           THEN <<Location(2, EntryPoint(2), "bp_loc_software_breakpoint",
                           TRUE, TRUE)>>
           ELSE <<>>))

\* A session in which windows_solib_create_inferior_hook has created the
\* entry-point breakpoint and the relocated process runs.
InitHit ==
  /\ sizeof_size_t = 8
  /\ reader = NoReader
  /\ ptr_bit = 64
  /\ byte_order = "little"
  /\ core_bfd = nullptr
  /\ hostfs = <<>>
  /\ last_xfer_libraries = <<>>
  /\ target_has_execution = TRUE
  /\ tib = [ok |-> TRUE, tlb |-> WordOfNat(ProcessLayout.tlb, 8)]
  /\ target_memory = HookMemory(64, "little", HookLayout.relocated, "none")
  /\ exec_bfd = nullptr
  /\ current_program_space = 1
  /\ program_spaces = [id \in ProgramSpaceIds |-> ProgramSpace(id, id = 1)]
  /\ \E both \in BOOLEAN :
       /\ windows_info =
            [id \in ProgramSpaceIds |->
               [entry_point |->
                  IF id = 1 \/ both
                  THEN WordOfNat(HookLayout.relocated + HookLayout.entry[id], 8)
                  ELSE WordOfNat(0, 8)]]
       /\ \E in1 \in BOOLEAN, in2 \in BOOLEAN, in3 \in BOOLEAN, armed \in BOOLEAN :
            breakpoints = Append(UserBreakpoints(in1, in2, in3, armed),
                                 EntryPointBreakpoint(both))
  /\ entry_point_breakpoint_created = TRUE
  /\ hook_runs = 1
  /\ last = NoCall

\* The process reaches a location of an entry-point breakpoint in the
\* current program space: a call of its check_status, with a bpstat that
\* says stop.
CheckStatus ==
  /\ target_has_execution
  /\ \E i \in 1..Len(breakpoints) :
       /\ IsEntryPointBreakpoint(breakpoints[i])
       /\ \E l \in 1..Len(breakpoints[i].locations) :
            breakpoints[i].locations[l].pspace = current_program_space
  /\ \E remove_fails \in SUBSET ActiveHardwareLocations(breakpoints, current_program_space) :
       \E insert_fails \in SUBSET (ActiveHardwareLocations(breakpoints, current_program_space) \ remove_fails) :
         \E res \in {check_status([stop |-> 1], breakpoints,
                                  current_program_space, remove_fails,
                                  insert_fails)} :
           /\ breakpoints' = res.breakpoints
           /\ last' = [op |-> "check_status", stop |-> res.bs.stop,
                       removed |-> res.removed, inserted |-> res.inserted,
                       remove_fails |-> remove_fails,
                       insert_fails |-> insert_fails]
  /\ UNCHANGED <<reader, sizeof_size_t, ptr_bit, byte_order, core_bfd, hostfs, last_xfer_libraries,
                 target_has_execution, tib, target_memory, exec_bfd,
                 current_program_space, program_spaces, windows_info,
                 entry_point_breakpoint_created, hook_runs>>

NextHit ==
  \/ CheckStatus
  \/ SwitchProgramSpace

SpecHit == InitHit /\ [][NextHit]_vars

(***************************************************************************)
(* Properties of the entry-point breakpoint and of the hook                *)
(***************************************************************************)

\* The entry-point breakpoints among all breakpoints.
EntryPointBreakpoints(bps) ==
  {i \in 1..Len(bps) : IsEntryPointBreakpoint(bps[i])}

\* Breakpoint b has a location in program space pspace at address.
HasLocationAt(b, pspace, address) ==
  \E l \in 1..Len(b.locations) :
    b.locations[l].pspace = pspace /\ b.locations[l].address = address

\* The entry point cached for the current program space.
CachedEntryPoint ==
  windows_info[current_program_space].entry_point

\* C12: re_set is idempotent.  A call on a breakpoint that has a location
\* in the current program space at the cached entry point changes nothing;
\* any other call relocates the breakpoint exactly once; after every call
\* the breakpoint has such a location, so that a second call relocates
\* nothing.
C12_ReSetIdempotent ==
  [][last'.op = "re_set" =>
       \A i \in EntryPointBreakpoints(breakpoints) :
         /\ HasLocationAt(breakpoints[i], current_program_space, CachedEntryPoint)
              => breakpoints' = breakpoints /\ last'.relocations = 0
         /\ ~HasLocationAt(breakpoints[i], current_program_space, CachedEntryPoint)
              => last'.relocations = 1
         /\ HasLocationAt(breakpoints'[i], current_program_space, CachedEntryPoint)
         /\ \A l \in 1..Len(breakpoints[i].locations) :
              breakpoints[i].locations[l].pspace # current_program_space
                => \E k \in 1..Len(breakpoints'[i].locations) :
                     breakpoints'[i].locations[k] = breakpoints[i].locations[l]]_vars

\* A second re_set has found the breakpoint at the cached entry point.
C12_Witness ==
  /\ last.op = "re_set"
  /\ last.relocations = 0
  /\ \E i \in EntryPointBreakpoints(breakpoints) :
       HasLocationAt(breakpoints[i], current_program_space, CachedEntryPoint)

\* The hook has resolved a base in a run whose outcome is `call' while the
\* target had execution.
ResolvedWithExecution(call) ==
  target_has_execution /\ call.exec_base # WordOfNat(0, 8)

\* C13: the entry-point breakpoint is created exactly once per session, in
\* the first run of the hook in which the target has execution and the
\* resolved base is not zero: a run creates it if and only if it is such a
\* run and none was before, nothing else creates one, and every such run
\* stores base + AddressOfEntryPoint in the entry-point cache of the current
\* program space.
C13_CreatedOnce ==
  [][IF hook_runs' = hook_runs + 1
     THEN /\ entry_point_breakpoint_created'
               = (entry_point_breakpoint_created \/ ResolvedWithExecution(last'))
          /\ Cardinality(EntryPointBreakpoints(breakpoints'))
               = IF entry_point_breakpoint_created' THEN 1 ELSE 0
          /\ Len(breakpoints') = Len(breakpoints)
               + (IF ResolvedWithExecution(last') /\ ~entry_point_breakpoint_created
                  THEN 1 ELSE 0)
          /\ ResolvedWithExecution(last') =>
               windows_info'[current_program_space].entry_point
                 = WordAdd(last'.exec_base,
                     program_spaces[current_program_space].exec_bfd.AddressOfEntryPoint)
          /\ ~ResolvedWithExecution(last') => windows_info' = windows_info
     ELSE /\ entry_point_breakpoint_created' = entry_point_breakpoint_created
          /\ EntryPointBreakpoints(breakpoints') = EntryPointBreakpoints(breakpoints)
          /\ Len(breakpoints') = Len(breakpoints)]_vars

\* A later run with execution and a base, after the breakpoint was created:
\* it stores the entry point and creates nothing.
C13_Witness ==
  /\ last.op = "solib_create_inferior_hook"
  /\ hook_runs >= 2
  /\ ResolvedWithExecution(last)
  /\ EventValues(last.events, "install_breakpoint") = <<>>
  /\ Cardinality(EntryPointBreakpoints(breakpoints)) = 1
  /\ CachedEntryPoint # WordOfNat(0, 8)

\* Whether a location is one of a hardware breakpoint or watchpoint.
IsHardwareLocation(loc) ==
  loc.loc_type \in {"bp_loc_hardware_breakpoint", "bp_loc_hardware_watchpoint"}

\* C14 as stated: after a hit the stop is cleared, and every hardware
\* breakpoint and watchpoint location of the current program space has been
\* removed and inserted and is in place again.
C14_EveryHardwareLocationInsertedAgain ==
  last.op = "check_status" =>
    /\ last.stop = 0
    /\ \A id \in LocationIds(breakpoints) :
         LET loc == breakpoints[id[1]].locations[id[2]]
         IN IsHardwareLocation(loc) /\ loc.pspace = current_program_space
              => id \in last.removed /\ id \in last.inserted /\ loc.armed

\* C14: on every hit the stop is cleared, and every inserted hardware
\* breakpoint and watchpoint location of the current program space, and no
\* other location, is removed; those whose removal succeeds, and no others,
\* are inserted again, and each of these whose insertion succeeds is in
\* place after the hit.
C14_InsertedHardwareLocationsReset ==
  [][last'.op = "check_status" =>
       /\ last'.stop = 0
       /\ LocationIds(breakpoints') = LocationIds(breakpoints)
       /\ \A id \in LocationIds(breakpoints) :
            LET loc == breakpoints[id[1]].locations[id[2]]
                hit == /\ IsHardwareLocation(loc)
                       /\ loc.pspace = current_program_space
                       /\ loc.inserted
            IN /\ id \in last'.removed <=> hit
               /\ id \in last'.inserted <=> (hit /\ id \notin last'.remove_fails)
               /\ (hit /\ id \notin last'.remove_fails
                       /\ id \notin last'.insert_fails)
                    => breakpoints'[id[1]].locations[id[2]].armed]_vars

\* A hit that has reset a location while another hardware location of the
\* current program space was not inserted.
C14_Witness ==
  /\ last.op = "check_status"
  /\ last.stop = 0
  /\ last.inserted # {}
  /\ \E id \in LocationIds(breakpoints) :
       LET loc == breakpoints[id[1]].locations[id[2]]
       IN /\ IsHardwareLocation(loc)
          /\ loc.pspace = current_program_space
          /\ ~loc.inserted
          /\ id \notin last.removed

\* C15: the module-list text is memoized.  Every run of the hook leaves no
\* cached text, whatever it resolves; an enumeration with a cached text
\* keeps it and scans nothing, an enumeration without one caches the text of
\* a scan of the sections.
C15_ModuleListMemoized ==
  [][/\ hook_runs' = hook_runs + 1 => last_xfer_libraries' = nullptr
     /\ last'.op = "xfer_shared_libraries" =>
          IF last_xfer_libraries # nullptr
          THEN last_xfer_libraries' = last_xfer_libraries
          ELSE /\ last_xfer_libraries' # nullptr
               /\ \E uninit \in UninitValues :
                    last_xfer_libraries'
                      = BuildLibraryList(nullptr, core_bfd, byte_order, ptr_bit,
                                         hostfs, uninit, sizeof_size_t)]_vars

\* An enumeration after a run of the hook has cached a text again.
C15_Witness ==
  /\ last.op = "xfer_shared_libraries"
  /\ hook_runs >= 1
  /\ last_xfer_libraries # nullptr
  /\ last.ret > 0

\* C16: in a run of the hook that resolves a base other than the ImageBase
\* of the executable while there is a symbol file, the symbol file is
\* rebased once, by base - ImageBase, before the entry point is stored and
\* the breakpoint is created; a run with the base at ImageBase rebases
\* nothing; and the entry point stored, and that of the breakpoint, is
\* base + AddressOfEntryPoint.
C16_RebasedBeforeEntryPoint ==
  [][hook_runs' = hook_runs + 1 =>
       LET pspace   == program_spaces[current_program_space]
           base     == last'.exec_base
           events   == last'.events
           rebases  == {i \in 1..Len(events) : events[i].ev = "objfile_rebase"}
           entries  == {i \in 1..Len(events) :
                          events[i].ev \in {"entry_point", "install_breakpoint"}}
           moved    == /\ pspace.symfile_object_file.present
                       /\ base # WordOfNat(0, 8)
                       /\ base # pspace.exec_bfd.ImageBase
       IN /\ Cardinality(rebases) = IF moved THEN 1 ELSE 0
          /\ \A i \in rebases :
               /\ WordAdd(pspace.exec_bfd.ImageBase, events[i].value) = base
               /\ \A j \in entries : i < j
               /\ program_spaces'[current_program_space].symfile_object_file.offset
                    = WordAdd(pspace.symfile_object_file.offset, events[i].value)
          /\ rebases = {} => program_spaces' = program_spaces
          /\ \A j \in entries :
               events[j].value = WordAdd(base, pspace.exec_bfd.AddressOfEntryPoint)]_vars

\* A run that has rebased the symbol file and created the breakpoint.
C16_Witness ==
  /\ last.op = "solib_create_inferior_hook"
  /\ EventValues(last.events, "objfile_rebase") # <<>>
  /\ EventValues(last.events, "install_breakpoint") # <<>>
  /\ program_spaces[current_program_space].symfile_object_file.offset
       # WordOfNat(0, 8)

(***************************************************************************)
(* Damaged sections in the scan of the dump's module sections              *)
(***************************************************************************)

Text_h_dll == <<104, 46, 100, 108, 108>>              \* "h.dll"
Text_k_dll == <<107, 46, 100, 108, 108>>              \* "k.dll"

\* The sections of the dumps with damaged sections: sound ones of both
\* conventions, and legacy sections that are too short, have an unknown
\* tag, or declare a name that does not fit.
DamagedDumpSections(order) ==
  { App1000(order),
    Lib2000(order),
    \* MODULE32 at 0x5000, name "m.dll" with its NUL, declared 6
    LegacySection(NOTE_INFO_MODULE, WordOfNat(20480, 8), 4, WordOfNat(6, 8),
                  Text_m_dll \o <<0>>, order),
    \* MODULE64 at 0x6000, name "n.dll" up to the section's end
    LegacySection(NOTE_INFO_MODULE64, WordOfNat(24576, 8), 8,
                  WordOfNat(5, 8), Text_n_dll, order),
    \* MODULE32 that declares a name of 200 bytes
    LegacySection(NOTE_INFO_MODULE, WordOfNat(28672, 8), 4, WordOfNat(200, 8),
                  Text_k_dll \o <<0>>, order),
    \* MODULE32 that declares a name of 0xfffffff8 bytes
    LegacySection(NOTE_INFO_MODULE, WordOfNat(32768, 8), 4,
                  <<248, 255, 255, 255, 0, 0, 0, 0>>, Text_h_dll \o <<0>>, order),
    \* three bytes
    Section(Name_module, <<3, 0, 0>>, TRUE),
    \* MODULE64 whose header ends after 12 bytes
    Section(Name_module,
            StoreInteger(WordOfNat(NOTE_INFO_MODULE64, 4), 4, order)
              \o StoreInteger(WordOfNat(36864, 8), 8, order), TRUE),
    \* an unknown tag
    LegacySection(5, WordOfNat(40960, 8), 4, WordOfNat(6, 8),
                  Text_k_dll \o <<0>>, order) }

MaxDamagedSections == 2

\* The dumps: up to MaxDamagedSections different sections, in any order.
DamagedDumps(order) ==
  {dump \in UNION {[1..n -> DamagedDumpSections(order)] :
                     n \in 0..MaxDamagedSections} :
     \A i, j \in 1..Len(dump) : i # j => dump[i] # dump[j]}

\* gdb built for a host with a size_t of 4 or of 8 bytes reads a dump.
InitDamaged ==
  /\ sizeof_size_t \in {4, 8}
  /\ reader = NoReader
  /\ ptr_bit \in {32, 64}
  /\ byte_order \in {"little", "big"}
  /\ core_bfd \in DamagedDumps(byte_order)
  /\ hostfs = <<>>
  /\ last_xfer_libraries = <<>>
  /\ CoreFileOnly
  /\ NoBreakpoints
  /\ last = NoCall

NextDamaged == XferSharedLibraries

SpecDamaged == InitDamaged /\ [][NextDamaged]_vars

\* The dump without its section i.
WithoutSection(dump, i) ==
  [k \in 1..(Len(dump) - 1) |-> IF k < i THEN dump[k] ELSE dump[k + 1]]

\* The module list a scan of dump makes on this host and target.
ScannedList(dump) ==
  BuildLibraryList(nullptr, dump, byte_order, ptr_bit, hostfs,
                   WordOfNat(0, 8), sizeof_size_t)

\* A legacy section that is to be skipped: shorter than 4 bytes, a tag
\* other than 3 and 4, shorter than its header, or a header size plus
\* declared name length, as numbers, above the section's size.
LegacyToBeSkipped(sect) ==
  /\ startswith(sect.name, Name_module)
  /\ \/ Len(sect.contents) < 4
     \/ LET tag == extract_unsigned_integer(sect.contents, 0, 4, byte_order)
            hdr == IF tag = WordOfNat(3, 8) THEN 12 ELSE 16
        IN \/ tag \notin {WordOfNat(3, 8), WordOfNat(4, 8)}
           \/ Len(sect.contents) < hdr
           \/ WordLess(WordOfNat(Len(sect.contents), 8),
                       WordAdd(WordOfNat(hdr, 8),
                               extract_unsigned_integer(sect.contents, hdr - 4,
                                                        4, byte_order)))

\* C17: a legacy `.module' section that is shorter than 4 bytes or than its
\* header, has a tag other than 3 and 4, or whose header size plus declared
\* name length exceeds its size, is skipped and emits nothing: the module
\* list of the dump is that of the dump without the section.
C17_LegacySectionSkipped ==
  last.op = "xfer_shared_libraries" =>
    \A i \in 1..Len(core_bfd) :
      LegacyToBeSkipped(core_bfd[i])
        => last_xfer_libraries = ScannedList(WithoutSection(core_bfd, i))

\* What damage makes of a section: unreadable, cut to three bytes, or its
\* first byte overwritten.
Damaged(sect) ==
  { [sect EXCEPT !.readable = FALSE],
    [sect EXCEPT !.contents = SubSeq(sect.contents, 1, 3)],
    [sect EXCEPT !.contents = <<9>> \o Tail(sect.contents)] }

\* Whether section i of the dump has a library element in its module list:
\* it is accepted and not the first that is.
IsListed(dump, i) ==
  /\ ModuleAccepted(dump[i])
  /\ \E j \in 1..(i - 1) : ModuleAccepted(dump[j])

\* C18: damage to one section neither aborts the scan nor removes the module
\* of another section: the list of the dump with section i damaged is
\* complete and names every module of another section that the list of the
\* dump names.
C18_DamageStaysInItsSection ==
  last.op = "xfer_shared_libraries" =>
    \A i \in 1..Len(core_bfd) : \A damaged \in Damaged(core_bfd[i]) :
      LET list == ParseLibraryList(
                    ScannedList([core_bfd EXCEPT ![i] = damaged])[1])
      IN /\ list.ok
         /\ \A j \in 1..Len(core_bfd) :
              j # i /\ IsListed(core_bfd, j)
                => \E k \in 1..Len(list.libs) :
                     list.libs[k].name = xml_escape_text(ModuleNameOf(core_bfd[j]))

(***************************************************************************)
(* windows_core_thread_name                                                *)
(***************************************************************************)

Name_corethread ==   \* ".corethread"
  <<46, 99, 111, 114, 101, 116, 104, 114, 101, 97, 100>>

\* The decimal digits of n.
RECURSIVE DecimalText(_)
DecimalText(n) ==
  IF n < 10 THEN <<48 + n>>
  ELSE DecimalText(n \div 10) \o <<48 + (n % 10)>>

\* thread_section_name (name, ptid): name/LWP for a thread with an lwp id,
\* the name alone without one.
thread_section_name(name, lwp) ==
  IF lwp # 0 THEN name \o <<47>> \o DecimalText(lwp) ELSE name

sizeof_name_buf == 80

UntruncatedSize(thread_name_size) ==
  thread_name_size

\* if (thread_name_size > sizeof name_buf - 1)
\*   thread_name_size = sizeof name_buf - 1;
TruncatedSize(thread_name_size) ==
  IF thread_name_size > sizeof_name_buf - 1
  THEN sizeof_name_buf - 1
  ELSE thread_name_size

\* The null pointer windows_core_thread_name returns for "no name".
NoName == [present |-> FALSE, text |-> <<>>]

\* windows_core_thread_name (gdbarch, thr) for the thread with lwp id lwp:
\* the C string returned in name_buf, or no name.  xmalloc does not return
\* a null pointer.
windows_core_thread_name(core, lwp, order) ==
  LET sect == bfd_get_section_by_name(core, thread_section_name(Name_corethread, lwp))
  IN IF lwp = 0 THEN NoName
     ELSE IF sect = 0 THEN NoName
     ELSE IF bfd_section_size(core[sect]) = 0 THEN NoName
     ELSE
       LET got == bfd_get_section_contents(core[sect], 0, bfd_section_size(core[sect]))
           thread_name == CStringAt(convert_between_encodings(got.data, order)
                                      \o <<0>>, 0)
       IN IF got.ok
          THEN [present |-> TRUE,
                text |-> SubSeq(thread_name, 1, TruncatedSize(Len(thread_name)))]
          ELSE NoName

\* A `.corethread/<lwp>' section whose payload is the UTF-16 name.
ThreadSection(lwp, name, readable, order) ==
  Section(thread_section_name(Name_corethread, lwp), Utf16(name, order), readable)

\* A name of n letters.
LongName(n) ==
  [i \in 1..n |-> 97 + (i % 26)]

Text_main == <<109, 97, 105, 110>>    \* "main"
Text_io   == <<105, 111>>             \* "io"

\* The sections of the dumps with thread names, for the threads 7 and 12
\* and for a thread without an lwp id.
ThreadSections(order) ==
  { ThreadSection(7, Text_main \o <<0>>, TRUE, order),
    ThreadSection(7, Text_main, FALSE, order),
    ThreadSection(7, <<>>, TRUE, order),
    ThreadSection(7, LongName(79), TRUE, order),
    ThreadSection(7, LongName(80) \o <<0>>, TRUE, order),
    ThreadSection(7, LongName(100), TRUE, order),
    ThreadSection(12, Text_io, TRUE, order),
    ThreadSection(0, Text_main, TRUE, order),
    App1000(order) }

MaxThreadSections == 2

ThreadDumps(order) ==
  {dump \in UNION {[1..n -> ThreadSections(order)] : n \in 0..MaxThreadSections} :
     \A i, j \in 1..Len(dump) : i # j => dump[i] # dump[j]}

\* The lwp ids of the threads asked for: 0 is a thread without one.
ThreadIds == {0, 7, 12}

InitThreadName ==
  /\ sizeof_size_t = 8
  /\ reader = NoReader
  /\ ptr_bit \in {32, 64}
  /\ byte_order \in {"little", "big"}
  /\ core_bfd \in ThreadDumps(byte_order)
  /\ hostfs = <<>>
  /\ last_xfer_libraries = <<>>
  /\ CoreFileOnly
  /\ NoBreakpoints
  /\ last = NoCall

\* A call of windows_core_thread_name.
CoreThreadName ==
  \E lwp \in ThreadIds :
    /\ last' = [op |-> "core_thread_name", lwp |-> lwp,
                ret |-> windows_core_thread_name(core_bfd, lwp, byte_order)]
    /\ UNCHANGED <<reader, sizeof_size_t, ptr_bit, byte_order, core_bfd, hostfs,
                   last_xfer_libraries, target_has_execution, tib,
                   target_memory, exec_bfd, debugger>>

NextThreadName == CoreThreadName

SpecThreadName == InitThreadName /\ [][NextThreadName]_vars

\* The sections of the dump that are called as the section of thread lwp.
SectionsOfThread(lwp) ==
  {i \in 1..Len(core_bfd) :
     core_bfd[i].name = Name_corethread \o <<47>> \o DecimalText(lwp)}

\* The first of them.
SectionOfThread(lwp) ==
  core_bfd[CHOOSE i \in SectionsOfThread(lwp) :
             \A j \in SectionsOfThread(lwp) : i <= j]

\* C19: windows_core_thread_name yields no name when the lwp id is 0 or the
\* thread's `.corethread/<lwp>' section is absent, empty or unreadable;
\* otherwise it yields a name of at most 79 characters, the host text of
\* the payload's UTF-16 units from the first on, which stops short of the
\* payload's text only after 79 characters.
C19_ThreadName ==
  last.op = "core_thread_name" =>
    IF last.lwp = 0 \/ SectionsOfThread(last.lwp) = {}
    THEN last.ret = NoName
    ELSE LET sect == SectionOfThread(last.lwp)
             text == last.ret.text
             units == Len(sect.contents) \div 2
         IN IF sect.contents = <<>> \/ ~sect.readable
            THEN last.ret = NoName
            ELSE /\ last.ret.present
                 /\ Len(text) <= 79
                 /\ Len(text) <= units
                 /\ Utf16(text, byte_order) = SubSeq(sect.contents, 1, 2 * Len(text))
                 /\ \/ Len(text) = 79
                    \/ Len(text) = units
                    \/ SubSeq(sect.contents, 2 * Len(text) + 1, 2 * Len(text) + 2)
                         = <<0, 0>>

\* A name of more than 79 characters was cut to 79.
C19_Witness ==
  /\ last.op = "core_thread_name"
  /\ last.ret.present
  /\ Len(last.ret.text) = 79
  /\ Len(SectionOfThread(last.lwp).contents) > 160

(***************************************************************************)
(* The layout offsets of the two pointer widths                            *)
(***************************************************************************)

\* The offsets of the structures of a process with pointers of `bit' bits:
\* the pointer size, the PEB pointer in the TIB, the process parameters and
\* the image base in the PEB, the three strings in the process parameters.
LayoutOffsets(bit) ==
  IF bit = 32
  THEN [pointer |-> 4, peb_in_tib |-> 48, pp_in_peb |-> 16, cmdline |-> 64,
        cwd |-> 36, exe |-> 56, image_base |-> 8]
  ELSE [pointer |-> 8, peb_in_tib |-> 96, pp_in_peb |-> 32, cmdline |-> 112,
        cwd |-> 56, exe |-> 96, image_base |-> 16]

\* The reads of target memory a decode of the process at ProcessLayout
\* makes with the offsets t, as <<address, length>>: the two pointers of
\* the chain, and of each string its Length and its Buffer pointer.
LayoutReads(t) ==
  {<<ProcessLayout.tlb + t.peb_in_tib, t.pointer>>,
   <<ProcessLayout.peb + t.pp_in_peb, t.pointer>>}
  \cup {<<ProcessLayout.pp + at, 2>> : at \in {t.cmdline, t.cwd, t.exe}}
  \cup {<<ProcessLayout.pp + at + t.pointer, t.pointer>> :
          at \in {t.cmdline, t.cwd, t.exe}}

PebImageBase ==
  LET Bases == {b \in {HookLayout.ImageBase, HookLayout.relocated, 0} :
                  target_memory = HookMemory(ptr_bit, byte_order, b, "none")}
  IN IF target_has_execution /\ tib.ok /\ Bases # {}
     THEN WordOfNat(CHOOSE b \in Bases : TRUE, 8)
     ELSE WordOfNat(0, 8)

\* The value the `.corebase' section of the loaded dump holds; 0 when no
\* dump is loaded or the dump has no such section.
DumpedBase ==
  IF core_bfd # nullptr /\ \E i \in 1..Len(core_bfd) : core_bfd[i] = CorebaseSection
  THEN WordOfNat(HookLayout.corebase, 8)
  ELSE WordOfNat(0, 8)

\* C21: every run of the hook resolves the base to the image base of the PEB
\* when that is readable and not zero, else to the value of the dump's
\* `.corebase' section; and a run in which neither gives a base other than
\* zero rebases nothing, stores no entry point and creates no breakpoint.
C21_BaseResolution ==
  [][hook_runs' = hook_runs + 1 =>
       LET zero == WordOfNat(0, 8)
           base == IF PebImageBase # zero THEN PebImageBase ELSE DumpedBase
       IN /\ last'.exec_base = base
          /\ base = zero =>
               /\ \A i \in 1..Len(last'.events) :
                    last'.events[i].ev = "last_xfer_libraries"
               /\ program_spaces' = program_spaces
               /\ windows_info' = windows_info
               /\ breakpoints' = breakpoints
               /\ entry_point_breakpoint_created' = entry_point_breakpoint_created]_vars

\* A run on a live process whose PEB holds no image base, with a dump
\* loaded: the base is the dump's and the breakpoint is created from it.
C21_Witness ==
  /\ last.op = "solib_create_inferior_hook"
  /\ target_has_execution /\ tib.ok
  /\ PebImageBase = WordOfNat(0, 8)
  /\ last.exec_base = WordOfNat(HookLayout.corebase, 8)
  /\ EventValues(last.events, "install_breakpoint") # <<>>

(***************************************************************************)
(* Import names at the end of the `.idata' section                         *)
(***************************************************************************)

\* The name of entry k starts fewer than sizeof (CYGWIN_DLL_NAME) bytes
\* before the end of the section.
NameTooNearEnd(k) ==
  OffsetInIdata(EntryNameVa(k)) + Len(CYGWIN_DLL_NAME) > IdataSize

\* The walk looks at entry k: it reaches it and no entry before it names
\* cygwin1.dll.
EntryVisited(k) ==
  EntryReached(k) /\ \A j \in 0..(k - 1) : ~EntryNamesCygwin(j)

\* The offsets of the directory entries in the section, and of the names
\* of the visited entries that lie far enough from its end.
EntryBytes ==
  UNION {EntryOffset(k)..(EntryOffset(k) + sizeof_pe_import_directory_entry - 1) :
           k \in {j \in 0..(MaxEntries + 1) :
                    EntryOffset(j) + sizeof_pe_import_directory_entry <= IdataSize}}

ComparableNameBytes ==
  UNION {OffsetInIdata(EntryNameVa(k))
           ..(OffsetInIdata(EntryNameVa(k)) + Len(CYGWIN_DLL_NAME) - 1) :
           k \in {j \in 0..MaxEntries : EntryVisited(j) /\ ~NameTooNearEnd(j)}}

\* C22: an entry whose name starts fewer than 12 bytes before the end of
\* the section is not compared (nothing is read but directory entries and
\* the names that fit), the walk goes on to the entry after it (reads it, or
\* warns that the section has ended), and an entry after it that the walk
\* reaches and that names cygwin1.dll makes the result true.
C22_ShortNameSkipped ==
  last.op = "is_linked_with_cygwin_dll" =>
    \A k \in 0..MaxEntries :
      (EntryVisited(k) /\ NameTooNearEnd(k)) =>
        /\ ~last.aborted
        /\ last.accessed \subseteq (EntryBytes \cup ComparableNameBytes)
        /\ IF EntryOffset(k + 1) + sizeof_pe_import_directory_entry <= IdataSize
           THEN EntryOffset(k + 1) \in last.accessed
           ELSE last.warnings = <<"unexpected end of .idata section">>
        /\ (\E j \in (k + 1)..MaxEntries : EntryReached(j) /\ EntryNamesCygwin(j))
             => last.ret

\* The name of the first entry is cut off by the end of the section, the
\* second entry names cygwin1.dll, and the result is true.
C22_Witness ==
  /\ last.op = "is_linked_with_cygwin_dll"
  /\ EntryVisited(0) /\ NameTooNearEnd(0)
  /\ EntryReached(1) /\ EntryNamesCygwin(1)
  /\ last.ret

(***************************************************************************)
(* windows_gdb_signal_from_target                                          *)
(***************************************************************************)

\* The 32-bit value whose bytes, most significant first, are b3 b2 b1 b0.
U32(b3, b2, b1, b0) ==
  <<b0, b1, b2, b3>>

\* The table exception_values: the exception codes and their names.
exception_values ==
  <<[value |-> U32(64, 0, 0, 21),   name |-> "FATAL_APP_EXIT"],
    [value |-> U32(64, 0, 0, 30),   name |-> "WX86_SINGLE_STEP"],
    [value |-> U32(64, 0, 0, 31),   name |-> "WX86_BREAKPOINT"],
    [value |-> U32(64, 1, 0, 5),    name |-> "DBG_CONTROL_C"],
    [value |-> U32(64, 1, 0, 8),    name |-> "DBG_CONTROL_BREAK"],
    [value |-> U32(128, 0, 0, 2),   name |-> "DATATYPE_MISALIGNMENT"],
    [value |-> U32(128, 0, 0, 3),   name |-> "BREAKPOINT"],
    [value |-> U32(128, 0, 0, 4),   name |-> "SINGLE_STEP"],
    [value |-> U32(192, 0, 0, 5),   name |-> "ACCESS_VIOLATION"],
    [value |-> U32(192, 0, 0, 6),   name |-> "IN_PAGE_ERROR"],
    [value |-> U32(192, 0, 0, 29),  name |-> "ILLEGAL_INSTRUCTION"],
    [value |-> U32(192, 0, 0, 37),  name |-> "NONCONTINUABLE_EXCEPTION"],
    [value |-> U32(192, 0, 0, 38),  name |-> "INVALID_DISPOSITION"],
    [value |-> U32(192, 0, 0, 140), name |-> "ARRAY_BOUNDS_EXCEEDED"],
    [value |-> U32(192, 0, 0, 141), name |-> "FLOAT_DENORMAL_OPERAND"],
    [value |-> U32(192, 0, 0, 142), name |-> "FLOAT_DIVIDE_BY_ZERO"],
    [value |-> U32(192, 0, 0, 143), name |-> "FLOAT_INEXACT_RESULT"],
    [value |-> U32(192, 0, 0, 144), name |-> "FLOAT_INVALID_OPERATION"],
    [value |-> U32(192, 0, 0, 145), name |-> "FLOAT_OVERFLOW"],
    [value |-> U32(192, 0, 0, 146), name |-> "FLOAT_STACK_CHECK"],
    [value |-> U32(192, 0, 0, 147), name |-> "FLOAT_UNDERFLOW"],
    [value |-> U32(192, 0, 0, 148), name |-> "INTEGER_DIVIDE_BY_ZERO"],
    [value |-> U32(192, 0, 0, 149), name |-> "INTEGER_OVERFLOW"],
    [value |-> U32(192, 0, 0, 150), name |-> "PRIV_INSTRUCTION"],
    [value |-> U32(192, 0, 0, 253), name |-> "STACK_OVERFLOW"],
    [value |-> U32(192, 0, 4, 9),   name |-> "FAST_FAIL"]>>

\* windows_gdb_signal_from_target (gdbarch, signal), with usignal the 32
\* bits of signal.  The case labels are the constants as the source
\* writes them: 0xC000005 is 0x0C000005.
windows_gdb_signal_from_target(usignal) ==
  CASE usignal = U32(0, 0, 0, 0) -> "GDB_SIGNAL_0"
    [] usignal \in {U32(12, 0, 0, 5), U32(12, 0, 0, 253)} -> "GDB_SIGNAL_SEGV"
    [] usignal \in {U32(12, 0, 0, 140), U32(12, 0, 0, 141), U32(12, 0, 0, 142),
                    U32(12, 0, 0, 143), U32(12, 0, 0, 144), U32(12, 0, 0, 145),
                    U32(12, 0, 0, 146), U32(12, 0, 0, 147), U32(12, 0, 0, 148),
                    U32(12, 0, 0, 149)} -> "GDB_SIGNAL_FPE"
    [] usignal \in {U32(8, 0, 0, 3), U32(8, 0, 0, 4)} -> "GDB_SIGNAL_TRAP"
    [] usignal \in {U32(4, 1, 0, 5), U32(4, 1, 0, 8)} -> "GDB_SIGNAL_INT"
    [] usignal \in {U32(12, 0, 0, 29), U32(12, 0, 0, 150), U32(12, 0, 0, 37)}
         -> "GDB_SIGNAL_ILL"
    [] usignal = U32(4, 0, 0, 21) -> "GDB_SIGNAL_ABRT"
    [] OTHER -> "GDB_SIGNAL_UNKNOWN"

\* The signal numbers of the model: the codes of the table, and the values
\* that share their low byte and have another high byte.
Signals ==
  {U32(0, 0, 0, 0), U32(255, 255, 255, 255)}
    \cup {exception_values[i].value : i \in 1..Len(exception_values)}
    \cup {U32(hi, exception_values[i].value[2], 0, exception_values[i].value[1]) :
            hi \in {4, 8, 12, 64, 128, 192}, i \in 1..Len(exception_values)}

InitSignal ==
  /\ sizeof_size_t = 8
  /\ reader = NoReader
  /\ ptr_bit \in {32, 64}
  /\ byte_order = "little"
  /\ core_bfd = nullptr
  /\ hostfs = <<>>
  /\ last_xfer_libraries = <<>>
  /\ CoreFileOnly
  /\ NoBreakpoints
  /\ last = NoCall

\* A call of windows_gdb_signal_from_target.
GdbSignalFromTarget ==
  /\ \E signal \in Signals :
       last' = [op |-> "gdb_signal_from_target", signal |-> signal,
                ret |-> windows_gdb_signal_from_target(signal)]
  /\ UNCHANGED <<reader, sizeof_size_t, ptr_bit, byte_order, core_bfd, hostfs, last_xfer_libraries,
                 target_has_execution, tib, target_memory, exec_bfd, debugger>>

NextSignal == GdbSignalFromTarget

SpecSignal == InitSignal /\ [][NextSignal]_vars

\* The signal the comment of the case names for the exception of a name.
SignalOfException(name) ==
  CASE name \in {"ACCESS_VIOLATION", "STACK_OVERFLOW"} -> "GDB_SIGNAL_SEGV"
    [] name \in {"ARRAY_BOUNDS_EXCEEDED", "FLOAT_DENORMAL_OPERAND",
                 "FLOAT_DIVIDE_BY_ZERO", "FLOAT_INEXACT_RESULT",
                 "FLOAT_INVALID_OPERATION", "FLOAT_OVERFLOW", "FLOAT_STACK_CHECK",
                 "FLOAT_UNDERFLOW", "INTEGER_DIVIDE_BY_ZERO", "INTEGER_OVERFLOW"}
         -> "GDB_SIGNAL_FPE"
    [] name \in {"BREAKPOINT", "SINGLE_STEP"} -> "GDB_SIGNAL_TRAP"
    [] name \in {"DBG_CONTROL_C", "DBG_CONTROL_BREAK"} -> "GDB_SIGNAL_INT"
    [] name \in {"ILLEGAL_INSTRUCTION", "PRIV_INSTRUCTION",
                 "NONCONTINUABLE_EXCEPTION"} -> "GDB_SIGNAL_ILL"
    [] name = "FATAL_APP_EXIT" -> "GDB_SIGNAL_ABRT"
    [] OTHER -> "GDB_SIGNAL_UNKNOWN"

\* C23: every exception code of the table exception_values is mapped to
\* the signal named for it, 0 to GDB_SIGNAL_0 and every other value to
\* GDB_SIGNAL_UNKNOWN.
C23_SignalOfEveryCode ==
  last.op = "gdb_signal_from_target" =>
    LET listed == {i \in 1..Len(exception_values) :
                     exception_values[i].value = last.signal}
    IN IF last.signal = U32(0, 0, 0, 0) THEN last.ret = "GDB_SIGNAL_0"
       ELSE IF listed = {} THEN last.ret = "GDB_SIGNAL_UNKNOWN"
       ELSE \A i \in listed :
              last.ret = SignalOfException(exception_values[i].name)

\* What the function does map: of the values that are not 0, only those
\* whose high byte is below 16 get a signal.
ListedCodesAreUnknown ==
  last.op = "gdb_signal_from_target" =>
    /\ last.signal = U32(0, 0, 0, 0) => last.ret = "GDB_SIGNAL_0"
    /\ \A i \in 1..Len(exception_values) :
         exception_values[i].value = last.signal => last.ret = "GDB_SIGNAL_UNKNOWN"

(***************************************************************************)
(* windows_iterate_over_objfiles_in_search_order                           *)
(***************************************************************************)

MaxObjfiles == 3

\* The objfile pointers: <<n>> points to objfile n, nullptr to none.
Objfiles ==
  {<<n>> : n \in 1..MaxObjfiles}

\* The lists current_program_space->objfiles () can be: every objfile at
\* most once.
ObjfileLists ==
  {list \in UNION {[1..n -> Objfiles] : n \in 0..MaxObjfiles} :
     \A i, j \in 1..Len(list) : list[i] = list[j] => i = j}

AnyObjfile(objfile, current_objfile) ==
  TRUE

\* objfile != current_objfile
IsOtherObjfile(objfile, current_objfile) ==
  objfile # current_objfile

\* The loop over the objfiles of the program space from the first of list
\* on: the objfiles cb is called on, in order.  cb_true is the set of
\* objfiles for which cb returns true.
RECURSIVE IterateObjfiles(_, _, _)
IterateObjfiles(list, cb_true, current_objfile) ==
  IF list = <<>> THEN <<>>
  ELSE IF ~IsOtherObjfile(Head(list), current_objfile)
  THEN IterateObjfiles(Tail(list), cb_true, current_objfile)
  ELSE IF Head(list) \in cb_true THEN <<Head(list)>>
  ELSE <<Head(list)>> \o IterateObjfiles(Tail(list), cb_true, current_objfile)

\* windows_iterate_over_objfiles_in_search_order (gdbarch, cb,
\* current_objfile): the objfiles cb is called on, in order.
windows_iterate_over_objfiles_in_search_order(cb_true, current_objfile, objfiles) ==
  IF current_objfile # nullptr /\ current_objfile \in cb_true
  THEN <<current_objfile>>
  ELSE (IF current_objfile # nullptr THEN <<current_objfile>> ELSE <<>>)
         \o IterateObjfiles(objfiles, cb_true, current_objfile)

InitObjfiles ==
  /\ sizeof_size_t = 8
  /\ reader = NoReader
  /\ ptr_bit = 64
  /\ byte_order = "little"
  /\ core_bfd = nullptr
  /\ hostfs = <<>>
  /\ last_xfer_libraries = <<>>
  /\ CoreFileOnly
  /\ current_program_space = 1
  /\ \E list \in ObjfileLists : program_spaces = <<[objfiles |-> list]>>
  /\ windows_info = <<>>
  /\ breakpoints = <<>>
  /\ entry_point_breakpoint_created = FALSE
  /\ hook_runs = 0
  /\ last = NoCall

\* A search through the objfiles: a call of
\* windows_iterate_over_objfiles_in_search_order with a callback and a
\* current objfile, which need not be one of the program space.
IterateOverObjfiles ==
  /\ \E current_objfile \in {nullptr} \cup Objfiles, cb_true \in SUBSET Objfiles :
       last' = [op |-> "iterate_over_objfiles_in_search_order",
                current_objfile |-> current_objfile, cb_true |-> cb_true,
                calls |-> windows_iterate_over_objfiles_in_search_order(
                            cb_true, current_objfile,
                            program_spaces[current_program_space].objfiles)]
  /\ UNCHANGED <<reader, sizeof_size_t, ptr_bit, byte_order, core_bfd, hostfs, last_xfer_libraries,
                 target_has_execution, tib, target_memory, exec_bfd, debugger>>

NextObjfiles == IterateOverObjfiles

SpecObjfiles == InitObjfiles /\ [][NextObjfiles]_vars

\* The search order: the current objfile, then the others as listed.
SearchOrder(current_objfile) ==
  LET IsOther(o) == o # current_objfile
  IN (IF current_objfile = nullptr THEN <<>> ELSE <<current_objfile>>)
       \o SelectSeq(program_spaces[current_program_space].objfiles, IsOther)

\* C24: the callback is called on the current objfile first when there is
\* one, then on the other objfiles of the program space in list order, on
\* none twice; the calls end with the first one that returns true, and when
\* none returns true every objfile is called on.
C24_SearchOrder ==
  last.op = "iterate_over_objfiles_in_search_order" =>
    LET calls == last.calls
        order == SearchOrder(last.current_objfile)
    IN /\ Len(calls) <= Len(order)
       /\ calls = SubSeq(order, 1, Len(calls))
       /\ \A i, j \in 1..Len(calls) : calls[i] = calls[j] => i = j
       /\ \A i \in 1..(Len(calls) - 1) : calls[i] \notin last.cb_true
       /\ Len(calls) < Len(order) => calls[Len(calls)] \in last.cb_true

\* A search with a current objfile that is listed last, which ends at the
\* third objfile it calls on.
C24_Witness ==
  /\ last.op = "iterate_over_objfiles_in_search_order"
  /\ Len(program_spaces[current_program_space].objfiles) = 3
  /\ last.current_objfile = program_spaces[current_program_space].objfiles[3]
  /\ Len(last.calls) = 3
  /\ last.calls[3] \in last.cb_true

(***************************************************************************)
(* windows_core_load_executable                                            *)
(***************************************************************************)

\* startswith (sect->name, ".coremodule/")
IsCoremoduleSection(name) ==
  startswith(name, Name_coremodule)

\* core_process_executable_section (abfd, sect, data): data is the
\* module_count and load_executable of struct cpes_data, load_executable
\* <<>> for NULL and <<name>> for a name.
core_process_executable_section(sect, data, order) ==
  LET got == bfd_get_section_contents(sect, 0, bfd_section_size(sect))
  IN IF data.module_count # 0 THEN data
     ELSE IF ~IsCoremoduleSection(sect.name) THEN data
     ELSE IF ~got.ok
     THEN [data EXCEPT !.module_count = @ + 1]
     ELSE [module_count |-> data.module_count + 1,
           load_executable |-> <<core_get_module_name(got.data, order)>>]

\* bfd_map_over_sections (core_bfd, core_process_executable_section,
\* &data), from section i on.
RECURSIVE MapExecutableSections(_, _, _, _)
MapExecutableSections(abfd, i, data, order) ==
  IF i > Len(abfd) THEN data
  ELSE MapExecutableSections(abfd, i + 1,
         core_process_executable_section(abfd[i], data, order), order)

\* windows_core_load_executable (gdbarch): <<>> for NULL, else <<name>>.
windows_core_load_executable(abfd, order) ==
  MapExecutableSections(abfd, 1,
    [module_count |-> 0, load_executable |-> nullptr], order).load_executable

InitExecutable ==
  /\ sizeof_size_t = 8
  /\ reader = NoReader
  /\ ptr_bit = 64
  /\ byte_order = "little"
  /\ core_bfd \in ModuleDumps(byte_order)
  /\ hostfs = <<>>
  /\ last_xfer_libraries = <<>>
  /\ CoreFileOnly
  /\ NoBreakpoints
  /\ last = NoCall

\* A call of windows_core_load_executable.
CoreLoadExecutable ==
  /\ last' = [op |-> "core_load_executable",
              ret |-> windows_core_load_executable(core_bfd, byte_order)]
  /\ UNCHANGED <<reader, sizeof_size_t, ptr_bit, byte_order, core_bfd, hostfs, last_xfer_libraries,
                 target_has_execution, tib, target_memory, exec_bfd, debugger>>

NextExecutable ==
  \/ XferSharedLibraries
  \/ CoreLoadExecutable

SpecExecutable == InitExecutable /\ [][NextExecutable]_vars

\* The places in the dump of the `.coremodule/' sections, and of the
\* sections the module list counts as modules.
CoremodulePlaces ==
  {i \in 1..Len(core_bfd) : startswith(core_bfd[i].name, Name_coremodule)}

ModulePlaces ==
  {i \in 1..Len(core_bfd) : ModuleAccepted(core_bfd[i])}

\* C25: the first `.coremodule/' section of the dump, which
\* windows_core_load_executable selects, is the section whose module the
\* module list counts as first and omits: the name returned is the name of
\* that module, and a name is returned whenever the list has omitted a
\* module.
C25_ExecutableIsOmittedModule ==
  (last.op = "core_load_executable" /\ last_xfer_libraries # <<>>) =>
    /\ ModulePlaces # {} => last.ret # nullptr
    /\ last.ret # nullptr =>
         /\ ModulePlaces # {}
         /\ Min(CoremodulePlaces) = Min(ModulePlaces)
         /\ last.ret[1] = ModuleNameOf(core_bfd[Min(ModulePlaces)])

\* Where the two scans do agree: in a dump whose first module section of
\* either convention is a readable `.coremodule/' section.
ExecutableOfSoundDump ==
  (last.op = "core_load_executable" /\ last_xfer_libraries # <<>>
     /\ CoremodulePlaces # {} /\ ModulePlaces # {}
     /\ Min(CoremodulePlaces) = Min(ModulePlaces)) =>
    last.ret = <<ModuleNameOf(core_bfd[Min(ModulePlaces)])>>

(***************************************************************************)
(* The slide of a rebase                                                   *)
(***************************************************************************)

\* The slides of the rebases a run of the hook has requested.
RequestedSlides(call) ==
  EventValues(call.events, "objfile_rebase")

\* C26: a run of the hook with a symbol file and a base B that is neither 0
\* nor the ImageBase of the executable's header requests one rebase, by
\* B - ImageBase, wherever the symbol file is mapped; any other run
\* requests none; and a run that follows a run with the same base requests
\* what that one did.
C26_SlideFromHeader ==
  [][hook_runs' = hook_runs + 1 =>
       LET pspace == program_spaces[current_program_space]
           B      == last'.exec_base
       IN /\ RequestedSlides(last') =
               IF /\ pspace.symfile_object_file.present
                  /\ B # WordOfNat(0, 8)
                  /\ B # pspace.exec_bfd.ImageBase
               THEN <<WordSub(B, pspace.exec_bfd.ImageBase)>>
               ELSE <<>>
          /\ (last.op = "solib_create_inferior_hook" /\ last.exec_base = B)
               => RequestedSlides(last') = RequestedSlides(last)]_vars

\* The second of two runs that both resolve the relocated base: the symbol
\* file, already moved by the first, is moved by the same slide again.
C26_Witness ==
  /\ last.op = "solib_create_inferior_hook"
  /\ hook_runs = 2
  /\ last.exec_base = WordOfNat(HookLayout.relocated, 8)
  /\ RequestedSlides(last)
       = <<WordOfNat(HookLayout.relocated - HookLayout.ImageBase, 8)>>
  /\ program_spaces[current_program_space].symfile_object_file.offset
       = WordOfNat(2 * (HookLayout.relocated - HookLayout.ImageBase), 8)

(***************************************************************************)
(* Reading the module list in chunks                                       *)
(***************************************************************************)

MaxChunkSections == 2

\* The sizes of the chunks a reader asks for.
ChunkLens == {16, 40, 64}

InitChunks ==
  /\ sizeof_size_t = 8
  /\ reader = [offset |-> 0, text |-> <<>>, done |-> FALSE]
  /\ ptr_bit = 64
  /\ byte_order = "little"
  /\ core_bfd \in {dump \in ModuleDumps(byte_order) : Len(dump) <= MaxChunkSections}
  /\ hostfs = <<>>
  /\ last_xfer_libraries = <<>>
  /\ CoreFileOnly
  /\ NoBreakpoints
  /\ last = NoCall

\* The reader asks for its next chunk: a call of
\* windows_core_xfer_shared_libraries at the offset the reader has reached.
\* It appends what it gets and stops when it gets nothing.
ReadChunk ==
  /\ ~reader.done
  /\ \E uninit \in IF last_xfer_libraries = <<>> THEN UninitValues
                   ELSE {WordOfNat(0, 8)} :
       \E built \in {BuildLibraryList(last_xfer_libraries, core_bfd, byte_order,
                                      ptr_bit, hostfs, uninit, sizeof_size_t)} :
         \E len \in ChunkLens :
           LET res == TransferLibraryList(built[1], FreshBuf(len), reader.offset, len)
           IN /\ last_xfer_libraries' = built
              /\ reader' = [offset |-> reader.offset + res.ret,
                            text |-> reader.text \o SubSeq(res.readbuf, 1, res.ret),
                            done |-> res.ret = 0]
              /\ last' = [op |-> "xfer_shared_libraries", offset |-> reader.offset,
                          len |-> len, ret |-> res.ret, readbuf |-> res.readbuf]
  /\ UNCHANGED <<sizeof_size_t, ptr_bit, byte_order, core_bfd, hostfs,
                 target_has_execution, tib, target_memory, exec_bfd, debugger>>

\* The chunked read, and single reads at the offsets of XferOffsets.
NextChunks ==
  \/ ReadChunk
  \/ XferSharedLibraries

SpecChunks == InitChunks /\ [][NextChunks]_vars

\* The cached document.
CachedDocument ==
  last_xfer_libraries[1]

\* What one read of the whole document returns.
WholeRead ==
  LET L == Len(CachedDocument)
      res == TransferLibraryList(CachedDocument, FreshBuf(L), 0, L)
  IN SubSeq(res.readbuf, 1, res.ret)

\* C27: a call on a cached document of length L returns min (len, L -
\* offset) and the bytes of the document from offset on when offset < L and
\* 0 when offset >= L, and leaves the rest of the buffer alone; what a
\* reader has put together from successive chunks is the document up to its
\* offset, and the whole document when its read has ended; every cached
\* document begins with the tag <library-list> and ends with the line of
\* the tag </library-list>.
C27_ChunkedRead ==
  last_xfer_libraries # <<>> =>
    LET doc == CachedDocument
        L   == Len(doc)
    IN /\ last.op = "xfer_shared_libraries" =>
            /\ last.ret = (IF last.offset >= L THEN 0
                           ELSE IF last.len <= L - last.offset THEN last.len
                           ELSE L - last.offset)
            /\ \A i \in 1..last.len :
                 last.readbuf[i] = (IF i <= last.ret THEN doc[last.offset + i] ELSE -1)
       /\ reader.offset <= L
       /\ reader.text = SubSeq(doc, 1, reader.offset)
       /\ (reader # NoReader /\ reader.done) => reader.text = WholeRead /\ WholeRead = doc
       /\ SubSeq(doc, 1, Len(LibraryListOpen) - 1)
            = SubSeq(LibraryListOpen, 1, Len(LibraryListOpen) - 1)
       /\ L >= Len(LibraryListOpen) + Len(LibraryListClose)
       /\ SubSeq(doc, L - Len(LibraryListClose) + 1, L) = LibraryListClose

\* A read that has ended after several chunks, the last of them shorter
\* than asked for, of a document that lists a module.
C27_Witness ==
  /\ last_xfer_libraries # <<>>
  /\ reader # NoReader /\ reader.done
  /\ reader.offset > 64
  /\ reader.offset % 8 # 0
  /\ reader.text = CachedDocument
  /\ Len(ParseLibraryList(CachedDocument).libs) > 0

(***************************************************************************)
(* What a hit of the entry-point breakpoint leaves alone                   *)
(***************************************************************************)

\* C28: a hit leaves every location alone that is not inserted, is not a
\* hardware breakpoint or watchpoint location, or belongs to another
\* program space: it is neither removed nor inserted and does not change;
\* a location whose removal fails is not inserted again; and no location
\* that was not inserted before the hit is inserted after it.
C28_HitFrame ==
  [][last'.op = "check_status" =>
       /\ LocationIds(breakpoints') = LocationIds(breakpoints)
       /\ \A id \in LocationIds(breakpoints) :
            LET loc   == breakpoints[id[1]].locations[id[2]]
                after == breakpoints'[id[1]].locations[id[2]]
            IN /\ (\/ ~loc.inserted
                   \/ ~IsHardwareLocation(loc)
                   \/ loc.pspace # current_program_space)
                    => /\ after = loc
                       /\ id \notin last'.removed
                       /\ id \notin last'.inserted
               /\ id \in last'.remove_fails
                    => id \notin last'.inserted /\ after = loc
               /\ after.inserted => loc.inserted
               /\ (after.armed /\ ~loc.armed) => loc.inserted]_vars

\* A hit in which the removal of a hardware location failed, while another
\* hardware location of the current program space was not inserted and one
\* of the other program space was.
C28_Witness ==
  /\ last.op = "check_status"
  /\ last.remove_fails # {}
  /\ last.inserted = {}
  /\ \E id1, id2 \in LocationIds(breakpoints) :
       LET loc1 == breakpoints[id1[1]].locations[id1[2]]
           loc2 == breakpoints[id2[1]].locations[id2[2]]
       IN /\ IsHardwareLocation(loc1) /\ IsHardwareLocation(loc2)
          /\ loc1.pspace = current_program_space /\ ~loc1.inserted
          /\ loc2.pspace # current_program_space /\ loc2.inserted

(***************************************************************************)
(* The length of a 32-bit exception-record read                            *)
(***************************************************************************)

\* C29: on a 32-bit target a read that succeeds returns min (len, 80 -
\* offset): it ends inside the 80-byte record and writes no byte of the
\* buffer beyond those it returns; and a read at offset 80 of a readable
\* record of 152 bytes succeeds and returns 0.
C29_ReadInsideRecord ==
  (last.op = "xfer_siginfo" /\ ptr_bit = 32) =>
    /\ last.ret # -1 =>
         /\ last.offset <= EXC_SIZE_32
         /\ last.ret = (IF last.len <= EXC_SIZE_32 - last.offset THEN last.len
                        ELSE EXC_SIZE_32 - last.offset)
         /\ last.ret >= 0
         /\ last.offset + last.ret <= EXC_SIZE_32
         /\ \A i \in 1..last.len :
              (last.readbuf[i] = -1) <=> (i > last.ret)
    /\ (/\ last.offset = EXC_SIZE_32
        /\ ExcSection # 0
        /\ core_bfd[ExcSection].readable
        /\ Len(core_bfd[ExcSection].contents) = EXC_SIZE_64)
         => last.ret = 0

\* A read of 8 bytes at offset 80 that succeeds and returns nothing.
C29_Witness ==
  /\ last.op = "xfer_siginfo" /\ ptr_bit = 32
  /\ last.offset = EXC_SIZE_32
  /\ last.len = 8
  /\ last.ret = 0

====
